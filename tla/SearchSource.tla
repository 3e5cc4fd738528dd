----------------------------- MODULE SearchSource -----------------------------
(***************************************************************************)
(* SearchSource (src/src/lib/search-source): one call that looks for a text *)
(* in the objects of some packages.  It resolves masks, lists the packages, *)
(* and has a pool of pumps read the objects and collect the hits, within   *)
(* a time budget and two caps.                                             *)
(*                                                                         *)
(* A line either matches or does not: of a source unit only the number of  *)
(* matching lines is kept, and of the answer the hits, the objects without *)
(* one, and the flags that say that something was left out.  A unit that   *)
(* cannot be read is skipped without a word.                               *)
(***************************************************************************)
EXTENDS Naturals, SequencesExt

CONSTANTS
  NamesOf,   \* packages that each mask finds
  Contents,  \* objects that the list of each package holds
  Units,     \* source units of each object: [include, matches]
  Searches   \* calls

\* An object is <<devclass, object_type, object_name>>, with numbers for names
\* so that they have an order.  FUGR is the type with more than one unit.
FUGR == 2

Objects == DOMAIN Units

ASSUME ConstantsAssumption ==
  /\ Objects \subseteq Nat \X Nat \X Nat
  /\ \A o \in Objects :
       /\ Units[o] \in Seq([include : Nat, matches : Nat])
       /\ o[2] # FUGR => Len(Units[o]) = 1
  /\ \A p \in DOMAIN Contents :
       Contents[p] \subseteq Objects /\ IsFiniteSet(Contents[p])
  /\ \A m \in DOMAIN NamesOf : NamesOf[m] \subseteq DOMAIN Contents
  /\ Searches \subseteq
       [names : SUBSET DOMAIN Contents, masks : SUBSET DOMAIN NamesOf,
        max_hits : Nat \ {0}, max_objects : Nat \ {0},
        concurrency : Nat \ {0}, budget : BOOLEAN, emit : BOOLEAN]

VARIABLES
  search,   \* the call; never changes
  phase,    \* "resolve", "enumerate", "scan", "done" or "error"
  left,     \* masks still to be resolved, or packages still to be listed
  packages, \* resolved so far
  found,    \* objects listed so far
  targets,  \* objects to read, in order
  next,     \* the target that the next free pump takes
  pumps,    \* what each pump does
  late,     \* the deadline has passed
  results,  \* hits
  noHits,   \* targets without a hit
  byCap,    \* truncated.by_object_cap
  byMax,    \* truncated.by_max_objects
  byTime,   \* truncated.by_timeout
  unread    \* history: targets of which something could not be read

listing == <<left, packages, found>>
collected == <<results, noHits, byCap, byTime, unread>>
vars == <<search, phase, listing, targets, next, pumps, late, byMax,
          collected>>

\* A pump that is free, or reads the unit of its target that is to be read
\* next (0: the list of the units), and what it has found of that target.
Free == [at |-> "free", target |-> 0, unit |-> 0, hits |-> << >>, cap |-> FALSE]

Init ==
  /\ search \in Searches
  /\ phase = "resolve"
  /\ left = search.masks
  /\ packages = search.names
  /\ found = {}
  /\ targets = << >> /\ next = 1
  /\ pumps = << >>
  /\ late = FALSE
  /\ results = << >> /\ noHits = << >>
  /\ byCap = FALSE /\ byMax = FALSE /\ byTime = FALSE
  /\ unread = {}

-----------------------------------------------------------------------------
(* What there is to read.                                                  *)

Fail ==
  /\ phase' = "error"
  /\ UNCHANGED <<search, listing, targets, next, pumps, late, byMax,
                 collected>>

\* One request for each mask, one after the other.
Resolve ==
  /\ phase = "resolve"
  /\ \E m \in left :
       \/ /\ left' = left \ {m}
          /\ packages' = packages \cup NamesOf[m]
          /\ UNCHANGED <<search, phase, found, targets, next, pumps, late,
                         byMax, collected>>
       \/ Fail

Resolved ==
  /\ phase = "resolve" /\ left = {}
  /\ phase' = "enumerate"
  /\ left' = packages
  /\ UNCHANGED <<search, packages, found, targets, next, pumps, late, byMax,
                 collected>>

\* One request for each package.  What another package has listed already is
\* not taken again.
Enumerate ==
  /\ phase = "enumerate"
  /\ \E p \in left :
       \/ /\ left' = left \ {p}
          /\ found' = found \cup Contents[p]
          /\ UNCHANGED <<search, phase, packages, targets, next, pumps, late,
                         byMax, collected>>
       \/ Fail

\* By devclass, object_type and object_name.
Earlier(o, p) ==
  \E i \in 1..3 : o[i] < p[i] /\ \A j \in 1..(i - 1) : o[j] = p[j]

Least(m, n) == IF m < n THEN m ELSE n

\* Array.prototype.sort: an entry takes the place that the number of entries
\* up to it says, and entries that compare equal stay in their order.
Sorted(s, Op(_, _)) ==
  LET place == [i \in DOMAIN s |-> Cardinality(
                  {j \in DOMAIN s :
                     Op(s[j], s[i]) \/ (~ Op(s[i], s[j]) /\ j <= i)})]
  IN [k \in 1..Len(s) |-> s[CHOOSE i \in DOMAIN s : place[i] = k]]

\* max_objects targets are kept, and that many pumps started.
Start ==
  /\ phase = "enumerate" /\ left = {}
  /\ LET all == Sorted(SetToSeq(found), Earlier)
         kept == SubSeq(all, 1, Least(Len(all), search.max_objects))
         n == Least(search.concurrency, Len(kept))
     IN /\ byMax' = (Len(all) > search.max_objects)
        /\ targets' = kept
        /\ pumps' = [k \in 1..(IF n = 0 THEN 1 ELSE n) |-> Free]
  /\ phase' = "scan"
  /\ UNCHANGED <<search, listing, next, late, collected>>

-----------------------------------------------------------------------------
(* Reading.                                                                *)

\* The time budget runs from the start of the call.
Elapse ==
  /\ search.budget /\ ~ late /\ phase \notin {"done", "error"}
  /\ late' = TRUE
  /\ UNCHANGED <<search, phase, listing, targets, next, pumps, byMax,
                 collected>>

Set(k, pump) == pumps' = [pumps EXCEPT ![k] = pump]

\* Mutant of Take: off by one at the end of the targets.
TakeShort(k) ==
  /\ phase = "scan" /\ pumps[k].at = "free"
  /\ IF late \/ next >= Len(targets)
       THEN Set(k, [Free EXCEPT !.at = "stopped"])
       ELSE Set(k, [Free EXCEPT !.at = "reads", !.target = next,
                      !.unit = IF targets[next][2] = FUGR THEN 0 ELSE 1])
  /\ next' = next + 1
  /\ byTime' = (byTime \/ late)
  /\ UNCHANGED <<search, phase, listing, targets, late, byMax, results,
                 noHits, byCap, unread>>

\* Mutant of Take: only a reading that is cut off is reported.
TakeUnreported(k) ==
  /\ phase = "scan" /\ pumps[k].at = "free"
  /\ IF late \/ next > Len(targets)
       THEN Set(k, [Free EXCEPT !.at = "stopped"])
       ELSE Set(k, [Free EXCEPT !.at = "reads", !.target = next,
                      !.unit = IF targets[next][2] = FUGR THEN 0 ELSE 1])
  /\ next' = next + 1
  /\ UNCHANGED <<search, phase, listing, targets, late, byMax, results,
                 noHits, byCap, byTime, unread>>

\* Mutant of Take: the index is written back without the other pumps' work.
TakeStale(k) ==
  /\ phase = "scan" /\ pumps[k].at = "free"
  /\ \E idx \in 1..next :
       /\ IF late \/ idx > Len(targets)
            THEN Set(k, [Free EXCEPT !.at = "stopped"])
            ELSE Set(k, [Free EXCEPT !.at = "reads", !.target = idx,
                     !.unit = IF targets[idx][2] = FUGR THEN 0 ELSE 1])
       /\ next' = idx + 1
  /\ byTime' = (byTime \/ late)
  /\ UNCHANGED <<search, phase, listing, targets, late, byMax, results,
                 noHits, byCap, unread>>

\* pump: the deadline first, then the next target.
Take(k) ==
  /\ phase = "scan" /\ pumps[k].at = "free"
  /\ \/ /\ late
        /\ byTime' = TRUE
        /\ Set(k, [Free EXCEPT !.at = "stopped"])
        /\ UNCHANGED next
     \/ /\ ~ late /\ next > Len(targets)
        /\ Set(k, [Free EXCEPT !.at = "stopped"])
        /\ next' = next + 1
        /\ UNCHANGED byTime
     \/ /\ ~ late /\ next <= Len(targets)
        /\ Set(k, [Free EXCEPT !.at = "reads", !.target = next,
                     !.unit = IF targets[next][2] = FUGR THEN 0 ELSE 1])
        /\ next' = next + 1
        /\ UNCHANGED byTime
  /\ UNCHANGED <<search, phase, listing, targets, late, byMax, results,
                 noHits, byCap, unread>>

Object(k) == targets[pumps[k].target]

Reads(k) ==
  /\ phase = "scan" /\ pumps[k].at = "reads"
  /\ pumps[k].unit <= Len(Units[Object(k)])

unchangedByReads ==
  <<search, phase, listing, targets, next, late, byMax, results, noHits,
    byCap>>

\* Mutant of Miss: a unit that cannot be read starts the target over.
MissStartingOver(k) ==
  /\ Reads(k)
  /\ Set(k, [pumps[k] EXCEPT !.unit = 0, !.hits = << >>])
  /\ unread' = unread \cup {Object(k)}
  /\ UNCHANGED <<unchangedByReads, byTime>>

\* What the generator cannot read it passes over: the list of the units and
\* with it all units, or one unit.
Miss(k) ==
  /\ Reads(k)
  /\ IF pumps[k].unit = 0
       THEN Set(k, [pumps[k] EXCEPT !.at = "ends"])
       ELSE Set(k, [pumps[k] EXCEPT !.unit = @ + 1])
  /\ unread' = unread \cup {Object(k)}
  /\ UNCHANGED <<unchangedByReads, byTime>>

\* The list of the units of a function group.
List(k) ==
  /\ Reads(k) /\ pumps[k].unit = 0
  /\ Set(k, [pumps[k] EXCEPT !.unit = 1])
  /\ UNCHANGED <<unchangedByReads, byTime, unread>>

\* A hit in a line.  Its unit is more than the answer tells: that has only the
\* unit's name, and an include may have that of a function module.
Hit(o, u, i) == [object |-> o, unit |-> u, line |-> i]

\* The first n hits in a unit.
HitsIn(o, u, n) == [i \in 1..Least(n, Units[o][u].matches) |-> Hit(o, u, i)]

\* Mutant of Scan: the cap is that of a unit.
ScanPerUnit(k) ==
  /\ Reads(k) /\ pumps[k].unit > 0 /\ ~ late
  /\ LET o == Object(k)
         u == pumps[k].unit
         capped == Units[o][u].matches > search.max_hits
     IN Set(k, [pumps[k] EXCEPT !.hits = @ \o HitsIn(o, u, search.max_hits),
                                !.cap = capped, !.unit = u + 1,
                                !.at = IF capped THEN "ends" ELSE "reads"])
  /\ UNCHANGED <<unchangedByReads, byTime, unread>>

\* A unit in time.  With no hit remaining, the unit is only probed, for one
\* that has to be left out.
Scan(k) ==
  /\ Reads(k) /\ pumps[k].unit > 0 /\ ~ late
  /\ LET o == Object(k)
         u == pumps[k].unit
         remaining == search.max_hits - Len(pumps[k].hits)
         capped == Units[o][u].matches > remaining
     IN Set(k, [pumps[k] EXCEPT !.hits = @ \o HitsIn(o, u, remaining),
                                !.cap = capped, !.unit = u + 1,
                                !.at = IF capped THEN "ends" ELSE "reads"])
  /\ UNCHANGED <<unchangedByReads, byTime, unread>>

\* A unit that comes too late is not scanned.
CutOff(k) ==
  /\ Reads(k) /\ pumps[k].unit > 0 /\ late
  /\ byTime' = TRUE
  /\ Set(k, [pumps[k] EXCEPT !.at = "ends"])
  /\ UNCHANGED <<unchangedByReads, unread>>

\* Mutant of Finish: the flag is that of the last target.
FinishLast(k) ==
  /\ phase = "scan"
  /\ \/ pumps[k].at = "ends"
     \/ pumps[k].at = "reads" /\ pumps[k].unit > Len(Units[Object(k)])
  /\ byCap' = pumps[k].cap
  /\ IF pumps[k].hits = << >> /\ search.emit
       THEN noHits' = Append(noHits, Object(k)) /\ UNCHANGED results
       ELSE results' = results \o pumps[k].hits /\ UNCHANGED noHits
  /\ Set(k, Free)
  /\ UNCHANGED <<search, phase, listing, targets, next, late, byMax, byTime,
                 unread>>

\* The target ends: its hits, or its name, are added.
Finish(k) ==
  /\ phase = "scan"
  /\ \/ pumps[k].at = "ends"
     \/ pumps[k].at = "reads" /\ pumps[k].unit > Len(Units[Object(k)])
  /\ byCap' = (byCap \/ pumps[k].cap)
  /\ IF pumps[k].hits = << >> /\ search.emit
       THEN noHits' = Append(noHits, Object(k)) /\ UNCHANGED results
       ELSE results' = results \o pumps[k].hits /\ UNCHANGED noHits
  /\ Set(k, Free)
  /\ UNCHANGED <<search, phase, listing, targets, next, late, byMax, byTime,
                 unread>>

\* Promise.all; the hits are sorted by devclass, object_name, include and line.
Place(h) ==
  <<h.object[1], h.object[3], Units[h.object][h.unit].include, h.line>>
Before(g, h) ==
  \E i \in 1..4 : /\ Place(g)[i] < Place(h)[i]
                  /\ \A j \in 1..(i - 1) : Place(g)[j] = Place(h)[j]

End ==
  /\ phase = "scan" /\ \A k \in DOMAIN pumps : pumps[k].at = "stopped"
  /\ phase' = "done"
  /\ results' = Sorted(results, Before)
  /\ noHits' = Sorted(noHits, Earlier)
  /\ UNCHANGED <<search, listing, targets, next, pumps, late, byMax, byCap,
                 byTime, unread>>

-----------------------------------------------------------------------------

Pump(k) ==
  Take(k) \/ Miss(k) \/ List(k) \/ Scan(k) \/ CutOff(k) \/ Finish(k)

Advance == Resolve \/ Resolved \/ Enumerate \/ Start \/ End

Next == Elapse \/ Advance \/ \E k \in DOMAIN pumps : Pump(k)

\* Every request is answered or times out.  Nothing says that time passes.
Fairness ==
  /\ WF_vars(Advance)
  /\ WF_vars(\E k \in DOMAIN pumps : Pump(k))

Spec == Init /\ [][Next]_vars /\ Fairness

-----------------------------------------------------------------------------
(* What the answer should be.                                              *)

Wanted ==
  UNION {Contents[p] :
           p \in search.names \cup UNION {NamesOf[m] : m \in search.masks}}

\* Every hit in an object, in the order of reading.
AllHits(o) ==
  FlattenSeq([u \in DOMAIN Units[o] |-> HitsIn(o, u, Units[o][u].matches)])

\* The hits in an object, if no more than max_hits are kept.
Kept(o) == SubSeq(AllHits(o), 1, Least(Len(AllHits(o)), search.max_hits))

Reported(o) == {h \in ToSet(results) : h.object = o}

Done == phase = "done"

-----------------------------------------------------------------------------
(* Properties.                                                             *)

\* Every variable has its type; the hits of a target stay within the cap, no
\* hit or target is in the answer twice, and a pump reads only what was taken.
TypeOK ==
  /\ search \in Searches
  /\ phase \in {"resolve", "enumerate", "scan", "done", "error"}
  /\ left \subseteq DOMAIN NamesOf \/ left \subseteq DOMAIN Contents
  /\ packages \subseteq DOMAIN Contents
  /\ found \subseteq Objects
  /\ targets \in Seq(Objects)
  /\ next \in 1..(Len(targets) + Len(pumps) + 1)
  /\ \A k \in DOMAIN pumps :
       /\ pumps[k].at \in {"free", "reads", "ends", "stopped"}
       /\ pumps[k].at \in {"reads", "ends"} => pumps[k].target \in 1..(next - 1)
       /\ Len(pumps[k].hits) <= search.max_hits
  /\ {late, byCap, byMax, byTime} \subseteq BOOLEAN
  /\ IsInjective(results) /\ IsInjective(noHits)
  /\ unread \subseteq ToSet(targets)

\* No two pumps read the same target, and none reads one that has been
\* answered for.
EachOnce ==
  \A k \in DOMAIN pumps : pumps[k].at \in {"reads", "ends"} =>
    /\ \A j \in DOMAIN pumps \ {k} :
         pumps[j].at \in {"reads", "ends"} => Object(j) # Object(k)
    /\ Object(k) \notin ToSet(noHits)
    /\ Reported(Object(k)) = {}

\* An answer without a flag is complete, however many pumps there were and
\* whenever the deadline passed: every hit in every object that the packages
\* and masks stand for, once, unless something could not be read.
Complete ==
  Done /\ ~ byCap /\ ~ byMax /\ ~ byTime /\ unread = {} =>
    /\ ToSet(results) = UNION {ToSet(AllHits(o)) : o \in Wanted}
    /\ search.emit => ToSet(noHits) = {o \in Wanted : AllHits(o) = << >>}

\* What is reported of an object are its first hits, up to the cap, and with
\* no time-out all of those.
FirstHits ==
  Done => \A o \in ToSet(targets) \ unread :
    /\ \E n \in 0..Len(Kept(o)) : Reported(o) = ToSet(SubSeq(Kept(o), 1, n))
    /\ ~ byTime => Reported(o) = ToSet(Kept(o))

\* Each cap is reported if it has left something out, and only then.
FlagsExact ==
  /\ Done => (byMax <=> Cardinality(Wanted) > search.max_objects)
  /\ Done /\ ~ byTime /\ unread = {} =>
       (byCap <=> \E o \in ToSet(targets) : Len(AllHits(o)) > search.max_hits)

\* "List zero-hit targets in a separate no_hits array": no target is in both
\* lists, and if no target was cut off each one is in either.
EitherList ==
  Done /\ search.emit =>
    /\ \A o \in ToSet(noHits) : Reported(o) = {}
    /\ ~ byTime =>
         \A o \in ToSet(targets) : o \in ToSet(noHits) \/ Reported(o) # {}

\* Every search ends.
SearchEnds == <>(phase \in {"done", "error"})

=============================================================================
