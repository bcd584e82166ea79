------------------------------ MODULE Scanners ------------------------------
(***************************************************************************)
(* crates/bilbo-json/src/jit.rs, below the token: how the compiled parser  *)
(* reads a string, an integer, or a member of an object from the bytes of  *)
(* the document, and skips a value that it has no field for.  Emit takes   *)
(* these for granted.                                                      *)
(*                                                                         *)
(* A task is a piece of a document and what was meant by it; the machine   *)
(* sees its bytes alone, reads them one block of code at a time, and has   *)
(* to find out what was meant and where the piece ends.                    *)
(***************************************************************************)
EXTENDS Integers, Sequences, SequencesExt, FiniteSetsExt

CONSTANTS
  Strings,    \* what is read: strings, integers, and members of objects,
  Ints,       \* see TaskBytes
  Members,
  IntBits,    \* bits of the accumulator of an integer (64)
  SwitchMin   \* fields from which keys are told apart by length first (12)

\* Bytes are strings.  "ws" is any blank; "hi", "lo" and "bm" are the first
\* digits of the four of a high surrogate, a low one, and any other code, and
\* "." is the other three.
Digit == [b \in {"0", "1", "2", "3", "4", "5", "6", "7", "8", "9"} |->
  CASE b = "0" -> 0 [] b = "1" -> 1 [] b = "2" -> 2 [] b = "3" -> 3
    [] b = "4" -> 4 [] b = "5" -> 5 [] b = "6" -> 6 [] b = "7" -> 7
    [] b = "8" -> 8 [] b = "9" -> 9]

\* A string or a key is a sequence of units, each a sequence of bytes: one
\* byte that stands for itself, or an escape.
\*   [op |-> "string", lead, units, closed, rest]
\*   [op |-> "int", lead, sign, digits, rest, signed, bits]
\*   [op |-> "member", lead, units, gap, value, rest, fields]
\* with lead, gap and rest the bytes around, and fields the names of the
\* struct, as sequences of bytes.  Members are those of a whole document; a
\* value is a sequence of units too, the quotes of its strings among them.
TaskBytes(k) ==
  CASE k.op = "string" ->
         k.lead \o <<"quote">> \o FlattenSeq(k.units)
           \o (IF k.closed THEN <<"quote">> \o k.rest ELSE <<>>)
    [] k.op = "int" -> k.lead \o k.sign \o k.digits \o k.rest
    [] k.op = "member" ->
         k.lead \o <<"quote">> \o FlattenSeq(k.units) \o <<"quote">> \o k.gap
           \o <<"colon">> \o k.gap \o FlattenSeq(k.value) \o k.rest

\* Escapes of one letter.
Named == [e \in {"n", "quote", "backslash"} |-> IF e = "n" THEN "LF" ELSE e]

IsPlain(u) == Len(u) = 1 /\ u[1] \notin {"quote", "backslash"}
IsCode(u, code) == u = <<"backslash", "u", code, ".", ".", ".">>
IsUnit(u) ==
  \/ IsPlain(u)
  \/ \E e \in DOMAIN Named : u = <<"backslash", e>>
  \/ \E code \in {"hi", "lo", "bm"} : IsCode(u, code)

\* After n units of value v: whether in a string, and in how many brackets.
Quoted(v, n) == Cardinality({m \in 1..n : v[m] = <<"quote">>}) % 2 = 1
Brackets(v, n, bs) ==
  Cardinality({m \in 1..n : v[m] \in bs /\ ~Quoted(v, m)})
Opening == {<<"{">>, <<"[">>}
Closing == {<<"}">>, <<"]">>}
Depth(v, n) == Brackets(v, n, Opening) - Brackets(v, n, Closing)

\* Where rt_skip may stop an atom.
Stops == {",", "}", "]", "ws"}

\* Value v, before rest: a string, brackets with what they enclose, or an atom.
IsValue(v, rest) ==
  /\ v # <<>>
  /\ \A n \in 1..Len(v) :
       \/ Len(v[n]) = 1 /\ v[n][1] # "backslash"
       \/ Len(v[n]) = 2 /\ v[n][1] = "backslash" /\ Quoted(v, n)
  /\ v[1] = <<"quote">> => \A n \in 1..Len(v) : Quoted(v, n) <=> n < Len(v)
  /\ v[1] \in Opening => \A n \in 1..Len(v) : Depth(v, n) = 0 <=> n = Len(v)
  /\ v[1] \notin Opening \union {<<"quote">>} =>
       /\ \A n \in 1..Len(v) :
            Len(v[n]) = 1 /\ v[n][1] \notin Stops \union {"quote"}
       /\ rest # <<>> => rest[1] \in Stops

ASSUME TaskAssumption ==
  /\ \A k \in Strings :
       /\ k.op = "string" /\ k.closed \in BOOLEAN
       /\ \A n \in 1..Len(k.units) :
            \/ IsUnit(k.units[n])
            \/ ~k.closed /\ n = Len(k.units) /\ k.units[n] = <<"backslash">>
  /\ \A k \in Ints :
       /\ k.op = "int" /\ k.signed \in BOOLEAN /\ k.bits \in 1..IntBits
       /\ k.lead \in Seq({"ws"}) /\ k.rest \in Seq(STRING)
       /\ k.sign \in {<<>>, <<"plus">>}
            \union (IF k.signed THEN {<<"minus">>} ELSE {})
       /\ k.digits \in Seq(DOMAIN Digit) /\ k.digits # <<>>
       /\ k.rest # <<>> => k.rest[1] \notin DOMAIN Digit
  /\ \A k \in Members :
       /\ k.op = "member"
       /\ \A n \in 1..Len(k.units) : IsUnit(k.units[n])
       /\ k.gap \in Seq({"ws"})
       /\ k.value \in Seq(Seq(STRING)) /\ IsValue(k.value, k.rest)
       /\ k.fields \in Seq(Seq(STRING))
       /\ \A f, g \in DOMAIN k.fields : k.fields[f] = k.fields[g] => f = g
  /\ \A k \in Strings \union Members :
       /\ k.lead \in Seq({"ws"})
       /\ k.units \in Seq(Seq(STRING)) /\ k.rest \in Seq(STRING)
  /\ IntBits \in Nat \ {0} /\ SwitchMin \in Nat

\* Of powers of two, all that matters.
ASSUME PowerAssumption ==
  2^0 = 1 /\ \A n \in 1..IntBits : 2^n = 2 * 2^(n - 1)

VARIABLES
  task,   \* what is read
  pc,     \* the block of code that is next
  cur,    \* the cursor, an index into the bytes
  start,  \* of the body of a string, and of the key
  len,    \* bytes of that body, or of the buffer
  esc,    \* there was a backslash in it
  i,      \* offset in the body; in rt_skip, the depth
  val,    \* the integer; in rt_skip, whether in a string; the field
  buf     \* the bytes of the String, at offsets in the allocation

vars == <<task, pc, cur, start, len, esc, i, val, buf>>

Input == TaskBytes(task)
End == Len(Input) + 1

\* The byte at a place, in the document or after it.
Byte(p) == IF p \in 1..Len(Input) THEN Input[p] ELSE "beyond"

Init ==
  /\ task \in Strings \/ task \in Ints \/ task \in Members
  /\ pc = "begin"
  /\ cur = 1
  /\ start = 0 /\ len = 0 /\ esc = FALSE
  /\ i = 0 /\ val = 0
  /\ buf = [j \in {} |-> "beyond"]

-----------------------------------------------------------------------------
(* White space.                                                            *)

\* rt_wsskip: the first byte above 0x20, or the end.
WsSkip(c) == Min({p \in c..End : p = End \/ Byte(p) # "ws"})

\* ws: two bytes are looked at in place, for the rest there is a call.
Ws(c) ==
  CASE Byte(c) # "ws" -> c
    [] Byte(c) = "ws" /\ Byte(c + 1) # "ws" -> c + 1
    [] OTHER -> WsSkip(c + 2)

-----------------------------------------------------------------------------
(* Strings: strspan and rt_strscan, then build_str.                        *)

\* strspan, for a String and for a key.
OpenQuote ==
  /\ pc = "begin"
  /\ task.op \in {"string", "member"}
  /\ start' = Ws(cur) + 1
  /\ cur' = Ws(cur) + 1
  /\ pc' = "strscan"
  /\ UNCHANGED <<task, len, esc, i, val, buf>>

\* What memchr2 finds from the cursor on, or the end.
Mark == Min({p \in cur..End : p = End \/ Byte(p) \in {"quote", "backslash"}})

AfterSpan == IF task.op = "member" THEN "colon" ELSE "build"

\* The closing quote, or the end of the document.
CloseQuote ==
  /\ pc = "strscan"
  /\ Byte(Mark) # "backslash"
  /\ len' = Mark - start
  /\ cur' = Min({Mark + 1, End})
  /\ pc' = AfterSpan
  /\ UNCHANGED <<task, start, esc, i, val, buf>>

\* Deviation: the cursor is not held back at the end of the document.
SkipEscapeFar ==
  /\ pc = "strscan"
  /\ Byte(Mark) = "backslash"
  /\ esc' = TRUE
  /\ cur' = Mark + 2
  /\ UNCHANGED <<task, pc, start, len, i, val, buf>>

\* A backslash: the byte after it is not looked at.
SkipEscape ==
  /\ pc = "strscan"
  /\ Byte(Mark) = "backslash"
  /\ esc' = TRUE
  /\ cur' = Min({Mark + 2, End})
  /\ UNCHANGED <<task, pc, start, len, i, val, buf>>

\* build_str: without escapes, rt_alloc and emit_copy; else rt_unescape.
Build ==
  /\ pc = "build"
  /\ pc' = CASE esc -> "unescape"
             [] ~esc /\ len >= 8 -> "words"
             [] OTHER -> "small"
  /\ UNCHANGED <<task, cur, start, len, esc, i, val, buf>>

\* cp: n bytes at offset at, from the body to the buffer.
Copied(b, at, n) ==
  [j \in DOMAIN b \union at..(at + n - 1) |->
     IF j \in at..(at + n - 1) THEN Byte(start + j) ELSE b[j]]

\* Eight bytes or more: words, while a whole one fits ...
CopyWord ==
  /\ pc = "words"
  /\ i + 8 <= len
  /\ buf' = Copied(buf, i, 8)
  /\ i' = i + 8
  /\ UNCHANGED <<task, pc, cur, start, len, esc, val>>

\* ... and a last one that ends where the string does.
CopyTail ==
  /\ pc = "words"
  /\ i + 8 > len
  /\ buf' = Copied(buf, len - 8, 8)
  /\ pc' = "done"
  /\ UNCHANGED <<task, cur, start, len, esc, i, val>>

\* Fewer than eight: two halves that overlap, or one byte, or none.
CopySmall ==
  /\ pc = "small"
  /\ buf' =
       CASE len >= 4 -> Copied(Copied(buf, 0, 4), len - 4, 4)
         [] len \in {2, 3} -> Copied(Copied(buf, 0, 2), len - 2, 2)
         [] len = 1 -> Copied(buf, 0, 1)
         [] len = 0 -> buf
  /\ pc' = "done"
  /\ UNCHANGED <<task, cur, start, len, esc, i, val>>

Pushed(c) == [j \in DOMAIN buf \union {Cardinality(DOMAIN buf)} |->
                IF j \in DOMAIN buf THEN buf[j] ELSE c]

\* rt_unescape: bytes that stand for themselves.
PushByte ==
  /\ pc = "unescape"
  /\ i < len
  /\ Byte(start + i) # "backslash"
  /\ buf' = Pushed(Byte(start + i))
  /\ i' = i + 1
  /\ UNCHANGED <<task, pc, cur, start, len, esc, val>>

\* An escape of one letter; nothing for a backslash that ends the string.
PushEscape ==
  /\ pc = "unescape"
  /\ i < len
  /\ Byte(start + i) = "backslash"
  /\ i + 1 < len => Byte(start + i + 1) # "u"
  /\ buf' = IF i + 1 < len THEN Pushed(Named[Byte(start + i + 1)]) ELSE buf
  /\ i' = i + 2
  /\ UNCHANGED <<task, pc, cur, start, len, esc, val>>

\* Deviation: a pair that ends the string is not recognized.
PushCodeShort ==
  /\ pc = "unescape"
  /\ i + 1 < len
  /\ Byte(start + i) = "backslash" /\ Byte(start + i + 1) = "u"
  /\ LET d == i + 5
         code == Byte(start + i + 2)
         paired == /\ code = "hi"
                   /\ d + 7 < len
                   /\ Byte(start + d + 3) = "lo" IN
       /\ buf' = Pushed(CASE paired -> "pair"
                          [] ~paired /\ code \in {"hi", "lo"} -> "FFFD"
                          [] OTHER -> "bmp")
       /\ i' = IF paired THEN d + 7 ELSE d + 1
  /\ UNCHANGED <<task, pc, cur, start, len, esc, val>>

\* A code, with four digits after the u; the last of them is at offset d.  A
\* high surrogate takes the code after it, if that is a low one.
PushCode ==
  /\ pc = "unescape"
  /\ i + 1 < len
  /\ Byte(start + i) = "backslash" /\ Byte(start + i + 1) = "u"
  /\ LET d == i + 5
         code == Byte(start + i + 2)
         paired == /\ code = "hi"
                   /\ d + 6 < len
                   /\ Byte(start + d + 1) = "backslash"
                   /\ Byte(start + d + 2) = "u"
                   /\ Byte(start + d + 3) = "lo" IN
       /\ buf' = Pushed(CASE paired -> "pair"
                          [] ~paired /\ code \in {"hi", "lo"} -> "FFFD"
                          [] OTHER -> "bmp")
       /\ i' = IF paired THEN d + 7 ELSE d + 1
  /\ UNCHANGED <<task, pc, cur, start, len, esc, val>>

\* into_boxed_slice: the buffer is as long as what was decoded.
EndUnescape ==
  /\ pc = "unescape"
  /\ i >= len
  /\ len' = Cardinality(DOMAIN buf)
  /\ pc' = "done"
  /\ UNCHANGED <<task, cur, start, esc, i, val, buf>>

-----------------------------------------------------------------------------
(* Integers: intval.                                                       *)

Word == 2^IntBits

\* White space and a sign; a minus is one for signed types only.
Sign ==
  /\ pc = "begin"
  /\ task.op = "int"
  /\ LET c == Ws(cur)
         neg == task.signed /\ Byte(c) = "minus" IN
       /\ esc' = neg
       /\ cur' = IF neg \/ Byte(c) = "plus" THEN c + 1 ELSE c
  /\ pc' = "digits"
  /\ UNCHANGED <<task, start, len, i, val, buf>>

NextDigit ==
  /\ pc = "digits"
  /\ cur < End /\ Byte(cur) \in DOMAIN Digit
  /\ val' = (val * 10 + Digit[Byte(cur)]) % Word
  /\ cur' = cur + 1
  /\ UNCHANGED <<task, pc, start, len, esc, i, buf>>

\* Deviation: the magnitude is cut to the type before the sign is looked at.
EndDigitsNarrow ==
  /\ pc = "digits"
  /\ ~(cur < End /\ Byte(cur) \in DOMAIN Digit)
  /\ LET low == val % 2^(task.bits - 1)
     IN  val' = IF esc THEN (2^task.bits - low) % 2^task.bits
                ELSE val % 2^task.bits
  /\ pc' = "done"
  /\ UNCHANGED <<task, cur, start, len, esc, i, buf>>

\* The sign, and store_sized, which keeps the low bits.
EndDigits ==
  /\ pc = "digits"
  /\ ~(cur < End /\ Byte(cur) \in DOMAIN Digit)
  /\ val' = (IF esc THEN (Word - val) % Word ELSE val) % 2^task.bits
  /\ pc' = "done"
  /\ UNCHANGED <<task, cur, start, len, esc, i, buf>>

-----------------------------------------------------------------------------
(* Members of an object: parse_struct between a key and its value.         *)

\* White space, and past the colon.
PastColon ==
  /\ pc = "colon"
  /\ cur' = Ws(cur) + 1
  /\ pc' = "dispatch"
  /\ UNCHANGED <<task, start, len, esc, i, val, buf>>

\* keyeq: the length and every byte of the name are compared, also those
\* that the key does not have, which may lie behind the document: the result
\* does not depend on them, for then the lengths differ.
KeyEq(name) ==
  /\ len = Len(name)
  /\ \A j \in 1..Len(name) : Byte(start + j - 1) = name[j]

\* Deviation: the word is compared, the length is not.
WordEqPrefix(name) == \A j \in 1..Len(name) : Byte(start + j - 1) = name[j]

\* One load of eight bytes, masked to the length of the name.
WordEq(name) ==
  LET Masked(bytes) == [j \in 1..8 |->
                          IF j <= Len(name) THEN bytes[j] ELSE "zero"]
  IN  len = Len(name) /\ Masked([j \in 1..8 |-> Byte(start + j - 1)])
                           = Masked(name)

\* A struct of many fields: the names that are as long as the key, one by
\* one.  Of few: every name, by words if there are eight bytes to load.
Matches ==
  LET names == task.fields
      byWord == start + 8 <= End IN
    {f \in DOMAIN names :
       CASE Len(names) >= SwitchMin -> Len(names[f]) = len /\ KeyEq(names[f])
         [] Len(names) < SwitchMin /\ byWord /\ Len(names[f]) <= 8 ->
              WordEq(names[f])
         [] OTHER -> KeyEq(names[f])}

\* A field has that name: its value is parsed next, from the cursor.
EnterField ==
  /\ pc = "dispatch"
  /\ Matches # {}
  /\ val' = Min(Matches)
  /\ pc' = "done"
  /\ UNCHANGED <<task, cur, start, len, esc, i, buf>>

\* None has: rt_skip, after its own white space.
NoField ==
  /\ pc = "dispatch"
  /\ Matches = {}
  /\ LET c == WsSkip(cur) IN
       /\ cur' = IF Byte(c) = "quote" THEN c + 1 ELSE c
       /\ pc' = CASE Byte(c) = "quote" -> "skipString"
                  [] Byte(c) \in {"{", "["} -> "skipNest"
                  [] OTHER -> "skipAtom"
  /\ UNCHANGED <<task, start, len, esc, i, val, buf>>

\* Deviation: an escape in a string is not stepped over.
SkipStringStuck ==
  /\ pc = "skipString"
  /\ IF cur < End /\ Byte(cur) # "quote"
     THEN /\ cur' = IF Byte(cur) = "backslash" THEN cur ELSE cur + 1
          /\ UNCHANGED pc
     ELSE /\ cur' = cur + 1
          /\ pc' = "done"
  /\ UNCHANGED <<task, start, len, esc, i, val, buf>>

\* A string: to the quote, over the byte after a backslash.
SkipString ==
  /\ pc = "skipString"
  /\ IF cur < End /\ Byte(cur) # "quote"
     THEN /\ cur' = IF Byte(cur) = "backslash" THEN cur + 2 ELSE cur + 1
          /\ UNCHANGED pc
     ELSE /\ cur' = cur + 1
          /\ pc' = "done"
  /\ UNCHANGED <<task, start, len, esc, i, val, buf>>

\* Brackets: to the one that closes the first, strings in them left out; i
\* is the depth, and val is 1 in a string.  The end of the document, where the
\* loop would stop too, is not met: the document is whole.
SkipNest ==
  /\ pc = "skipNest"
  /\ cur < End
  /\ LET c == Byte(cur)
         open == val = 0 /\ c \in {"{", "["}
         close == val = 0 /\ c \in {"}", "]"} IN
       /\ cur' = IF val = 1 /\ c = "backslash" THEN cur + 2 ELSE cur + 1
       /\ val' = IF c = "quote" THEN 1 - val ELSE val
       /\ i' = CASE open -> i + 1 [] close -> i - 1 [] OTHER -> i
       /\ pc' = IF close /\ i = 1 THEN "done" ELSE pc
  /\ UNCHANGED <<task, start, len, esc, buf>>

\* Anything else: to a comma, a bracket or white space.
SkipAtom ==
  /\ pc = "skipAtom"
  /\ IF cur < End /\ Byte(cur) \notin Stops
     THEN /\ cur' = cur + 1
          /\ UNCHANGED pc
     ELSE /\ pc' = "done"
          /\ UNCHANGED cur
  /\ UNCHANGED <<task, start, len, esc, i, val, buf>>

-----------------------------------------------------------------------------
Scan ==
  \/ OpenQuote \/ CloseQuote \/ SkipEscape
  \/ Build \/ CopyWord \/ CopyTail \/ CopySmall
  \/ PushByte \/ PushEscape \/ PushCode \/ EndUnescape
  \/ Sign \/ NextDigit \/ EndDigits
  \/ PastColon \/ EnterField \/ NoField
  \/ SkipString \/ SkipNest \/ SkipAtom

AllDone == pc = "done" /\ UNCHANGED vars

Next == Scan \/ AllDone

Spec == Init /\ [][Next]_vars

\* The thread that parses runs.
FairSpec == Spec /\ WF_vars(Scan)

-----------------------------------------------------------------------------
(* Properties.                                                             *)

\* Types of the variables; the cursor never passes the end of a document.
TypeOK ==
  /\ task \in Strings \/ task \in Ints \/ task \in Members
  /\ pc \in {"begin", "strscan", "build", "words", "small", "unescape",
             "digits", "colon", "dispatch", "skipString", "skipNest",
             "skipAtom", "done"}
  /\ cur \in 1..End
  /\ start \in 0..End /\ len \in 0..End
  /\ esc \in BOOLEAN
  /\ i \in Nat /\ val \in Nat
  /\ DOMAIN buf \subseteq Nat

\* What a string of units means, as characters.
Meaning(u) ==
  CASE u[1] # "backslash" -> u
    [] u = <<"backslash">> -> <<>>
    [] Len(u) = 2 -> <<Named[u[2]]>>
    [] OTHER -> <<IF u[3] = "bm" THEN "bmp" ELSE "FFFD">>

\* What is meant from each unit on.
MeantFrom(units) ==
  LET from[n \in 1..(Len(units) + 2)] ==
        CASE n > Len(units) -> <<>>
          [] n < Len(units) /\ IsCode(units[n], "hi")
                            /\ IsCode(units[n + 1], "lo") ->
               <<"pair">> \o from[n + 2]
          [] OTHER -> Meaning(units[n]) \o from[n + 1]
  IN  from
Meanings(units) == MeantFrom(units)[1]

\* build_str (jit.rs:392, :1410): the buffer of a String has the characters
\* that were meant, each in its place, and as many as the String is told; no
\* byte was written anywhere else, although the words that are copied overlap;
\* the cursor is behind the closing quote.
StringsExact ==
  pc = "done" /\ task.op = "string" =>
    LET meant == Meanings(task.units) IN
      /\ len = Len(meant)
      /\ buf = [j \in 0..(len - 1) |-> meant[j + 1]]
      /\ cur = End - IF task.closed THEN Len(task.rest) ELSE 0

\* The number that the first n digits are, for every n.
UpTo(digits) ==
  LET upTo[n \in 0..Len(digits)] ==
        IF n = 0 THEN 0 ELSE upTo[n - 1] * 10 + Digit[digits[n]]
  IN  upTo
Magnitude(digits) == UpTo(digits)[Len(digits)]

\* intval (jit.rs:552): an integer that its type can hold is stored exactly,
\* the least negative one included, although the accumulator wraps.
IntegersExact ==
  pc = "done" /\ task.op = "int" =>
    LET meant == IF task.sign = <<"minus">> THEN - Magnitude(task.digits)
                 ELSE Magnitude(task.digits)
        half == 2^(task.bits - 1)
        range == IF task.signed THEN (-half)..(half - 1) ELSE 0..(2 * half - 1)
    IN  /\ meant \in range => val = meant % (2 * half)
        /\ cur = End - Len(task.rest)

\* parse_struct (jit.rs:986-1098): a member goes to the field of its name, as
\* that is written, and to no other, by whichever of the three ways keys are
\* compared, also near the end of the document, where a word cannot be loaded;
\* the value of a member without a field is skipped to its last byte, brackets
\* and quotes in its strings notwithstanding.
MembersFound ==
  pc = "done" /\ task.op = "member" =>
    LET key == FlattenSeq(task.units)
        named == {f \in DOMAIN task.fields : task.fields[f] = key}
        behind == Len(task.rest)
        before == behind + Len(FlattenSeq(task.value)) IN
      IF named = {} THEN cur = End - behind
      ELSE named = {val} /\ cur \in (End - before - Len(task.gap))..(End - before)

\* Scanning ends.
ScanEnds == <>(pc = "done")
=============================================================================
