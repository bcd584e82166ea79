----------------------------- MODULE MCClassify -----------------------------
(***************************************************************************)
(* An instance of Classify for TLC: the debug info of two compilation      *)
(* units, A and B.  Only B has a complete Node; A declares it, and has the *)
(* types that contain it or themselves, and some that cannot be read.      *)
(*                                                                         *)
(*   struct Node { val: u64, next: Option<Box<Node>> }                     *)
(*   struct Tree { node: Box<Node>, kids: Vec<Tree>,                       *)
(*                 by: BTreeMap<String, Vec<Tree>>,                        *)
(*                 own: MaybeUninit<Node> }                                *)
(*   enum Shape { Point, Boxed(Box<Node>), Own(MaybeUninit<Node>) }        *)
(***************************************************************************)
EXTENDS Classify, TLC

CONSTANTS
  word,    \* u64 (B)
  node,    \* Node (B)
  next,    \* Option<Box<Node>> (B)
  link,    \* Box<Node> (B)
  decl,    \* declaration of Node (A)
  alias,   \* typedef of decl (A)
  cell,    \* MaybeUninit<Node> (A)
  bare,    \* a wrapper whose parameter is missing (A)
  hbox,    \* Box<Node> (A), at the offset that node has in B
  vec,     \* Vec<Tree> (A)
  tree,    \* Tree (A)
  map,     \* BTreeMap<String, Vec<Tree>> (A), at the offset that next has in B
  shape,   \* Shape (A)
  either,  \* Result<Box<Node>, Vec<Tree>> (A)
  text,    \* String (A)
  orphan,  \* declaration of a type that has no definition anywhere (A)
  broken,  \* a Vec without capacity (A)
  outer    \* a structure with a broken part (A)

InB == {word, node, next, link}

MCUnitOf == [d \in Dies |-> IF d \in InB THEN "B" ELSE "A"]

MCOffsetOf ==
  word :> 1 @@ node :> 2 @@ next :> 3 @@ link :> 4 @@
  hbox :> 2 @@ map :> 3 @@ decl :> 5 @@ alias :> 6 @@ cell :> 7 @@
  bare :> 8 @@ vec :> 9 @@ tree :> 10 @@ shape :> 11 @@ either :> 12 @@
  orphan :> 13 @@ broken :> 14 @@ outer :> 15 @@ text :> 16

MCShape ==
  word :> "leaf" @@ node :> "struct" @@ next :> "enum" @@ link :> "box" @@
  hbox :> "box" @@ map :> "map" @@ decl :> "struct" @@ alias :> "alias" @@
  cell :> "transparent" @@ bare :> "transparent" @@ vec :> "vec" @@
  tree :> "struct" @@ shape :> "enum" @@ either :> "enum" @@
  orphan :> "struct" @@ broken :> "vec" @@
  outer :> "struct" @@ text :> "leaf"

MCTarget ==
  [d \in Dies |-> CASE d = alias -> decl [] d = cell -> alias [] OTHER -> NoDie]

MCParts ==
  word :> <<>> @@ node :> <<word, next>> @@ next :> <<link>> @@
  link :> <<node>> @@ hbox :> <<alias>> @@ map :> <<text, vec>> @@
  decl :> <<>> @@ alias :> <<>> @@ cell :> <<>> @@ bare :> <<>> @@
  vec :> <<tree>> @@ tree :> <<hbox, vec, map, cell>> @@
  shape :> <<hbox, cell>> @@ either :> <<hbox, vec>> @@ orphan :> <<>> @@
  broken :> <<decl>> @@ outer :> <<hbox, broken>> @@ text :> <<>>

MCEmpty == [d \in Dies |-> d \in {next, shape}]

MCSize ==
  word :> 8 @@ node :> 16 @@ next :> 8 @@ link :> NoSize @@
  hbox :> NoSize @@ map :> 24 @@ decl :> NoSize @@ alias :> NoSize @@
  cell :> 16 @@ bare :> 8 @@ vec :> 24 @@ tree :> 64 @@ shape :> 24 @@
  either :> 24 @@ orphan :> NoSize @@ broken :> 24 @@ outer :> 32 @@
  text :> 24

MCDefinition == decl :> node @@ orphan :> NoDie
=============================================================================
