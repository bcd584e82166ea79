----------------------------- MODULE MCScanners -----------------------------
(***************************************************************************)
(* An instance of Scanners for TLC.                                        *)
(***************************************************************************)
EXTENDS Scanners

B == "backslash"
Q == "quote"
Letters == <<"a", "b", "c", "d", "e">>

\* n bytes, no two within five of each other alike.
Text(n) == [j \in 1..n |-> Letters[(j % 5) + 1]]
Units(bytes) == [j \in DOMAIN bytes |-> <<bytes[j]>>]
Code(c) == <<B, "u", c, ".", ".", ".">>

String(lead, units, closed, rest) ==
  [op |-> "string", lead |-> lead, units |-> units, closed |-> closed,
   rest |-> rest]

\* Every length up to three words and a bit; every string of three units;
\* strings that are cut off; up to four blanks.
MCStrings ==
  {String(<<>>, Units(Text(n)), TRUE, <<",", Q>>) : n \in 0..26}
    \union
  {String(<<"ws">>, us, TRUE, <<"}">>) :
     us \in UNION {[1..n -> {<<"a">>, <<B, "n">>, <<B, Q>>, <<B, B>>,
                             Code("hi"), Code("lo"), Code("bm")}] : n \in 1..3}}
    \union
  {String([j \in 1..n |-> "ws"], us, FALSE, <<>>) :
     n \in 0..4, us \in {Units(Text(2)), <<<<"a">>, <<B>>>>}}

\* A minus for signed types only: the documents are those the type can hold.
MCInts ==
  {[op |-> "int", lead |-> blanks, sign |-> s[1], digits |-> digits,
    rest |-> blanks, signed |-> s[2], bits |-> bits] :
     blanks \in {<<>>, <<"ws", "ws">>},
     s \in ({<<>>, <<"plus">>} \X BOOLEAN) \union {<<<<"minus">>, TRUE>>},
     digits \in UNION {[1..n -> {"0", "1", "2", "5", "7", "8"}] : n \in 1..3},
     bits \in {4, 8}}

\* Names shorter than a word, as long, and longer; the last letter differs,
\* or the length; keys with an escape.
Few == <<Text(2), Text(8), Text(9)>>
Many == <<Text(2), <<"b", "a">>, Text(8), Text(9)>>
Keys == {Text(n) : n \in {1, 2, 3, 7, 8, 9, 10}}
          \union {<<"b", "a">>, <<"b", "d">>, Append(Text(7), "a"),
                  Append(Text(8), "a")}
Escaped == {<<<<B, Q>>>>, <<<<"b">>, <<B, B>>>>}

\* Values with brackets, quotes and backslashes in strings.
Values ==
  {Units(<<"1", "2">>), Units(<<Q, "a", Q>>),
   <<<<Q>>, <<B, Q>>, <<"}">>, <<B, B>>, <<Q>>>>,
   Units(<<"{", "}">>), Units(<<"[", "1", ",", "ws", "2", "]">>),
   Units(<<"{", Q, "]">>) \o <<<<B, Q>>>>
     \o Units(<<Q, "colon", "[", "{", "}", "]", "}">>),
   <<<<"[">>, <<Q>>, <<B, B>>>> \o Units(<<Q, ",", Q, "[", Q, "]">>)}

MCMembers ==
  {[op |-> "member", lead |-> gap, units |-> key, gap |-> gap,
    value |-> value, rest |-> rest, fields |-> fields] :
     gap \in {<<>>, <<"ws">>}, key \in {Units(k) : k \in Keys} \union Escaped,
     value \in Values,
     rest \in {<<"}">>, <<"ws", "}">>, <<",", Q, "a", Q, "colon", "1", "}">>},
     fields \in {Few, Many}}
=============================================================================
