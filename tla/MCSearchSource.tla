---------------------------- MODULE MCSearchSource ----------------------------
(***************************************************************************)
(* Two packages, the second within the first: a class and a program of one *)
(* name, a function group of three units and a program without a match.    *)
(* Mask 1 finds the second package, mask 2 nothing.                        *)
(***************************************************************************)
EXTENDS SearchSource

Unit(include, matches) == [include |-> include, matches |-> matches]

class   == <<1, 1, 1>>
program == <<1, 3, 1>>
group   == <<2, 2, 1>>
other   == <<2, 3, 2>>

MCUnits ==
  class :> << Unit(1, 2) >> @@ program :> << Unit(1, 1) >>
    @@ group :> << Unit(1, 1), Unit(3, 0), Unit(2, 1) >>
    @@ other :> << Unit(2, 0) >>

MCContents == << {class, program, group, other}, {group, other} >>
MCNamesOf == << {2}, {} >>

\* What to look in: the outer package, the inner one by a mask, both (the inner
\* one twice), or nothing.
Where ==
  {<<{1}, {}>>, <<{}, {1}>>, <<{1, 2}, {1}>>, <<{}, {2}>>}

MCSearches ==
  {[names |-> w[1], masks |-> w[2], max_hits |-> h, max_objects |-> o,
    concurrency |-> n, budget |-> b, emit |-> e] :
     w \in Where, h \in {1, 2}, o \in {2, 3}, n \in {1, 2},
     b \in BOOLEAN, e \in BOOLEAN}
  \cup
  {[names |-> {1}, masks |-> {}, max_hits |-> 2, max_objects |-> 9,
    concurrency |-> n, budget |-> TRUE, emit |-> TRUE] : n \in {2, 3}}

=============================================================================
