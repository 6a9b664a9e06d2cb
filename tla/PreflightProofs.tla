--------------------------- MODULE PreflightProofs ---------------------------
(***************************************************************************)
(* Proofs about preflight, for every set of workflows of any size.         *)
(***************************************************************************)
EXTENDS Preflight, FiniteSetTheorems, SequenceTheorems, NaturalsInduction, WellFoundedInduction,
        TLAPS

\* What the search and the numbering of steps need to know of workflow w.
Named(w) == {w.id[s] : s \in Steps}

StepIn(w, id) == CHOOSE s \in Steps : w.id[s] = id

Needs(w, id) == w.dependsOn[StepIn(w, id)]

\* No two steps have one id, and every dependency is a step.
Unique(w) == \A s, t \in Steps : w.id[s] = w.id[t] => s = t

Checked(w) == Unique(w) /\ \A s \in Steps : w.dependsOn[s] \subseteq Named(w)

\* Every step has a greater number than the steps it depends on.
Numbers(w) ==
    {rank \in [Steps -> Steps] :
       \A s \in Steps, t \in Steps : w.id[t] \in w.dependsOn[s] => rank[t] < rank[s]}

Frame == [id : Ids, rest : SUBSET Ids]

Open(st) == {st[i].id : i \in DOMAIN st}

\* The calls that are open follow dependencies: what a call has been through is
\* visited or is the next call, and in any numbering the numbers fall.
Path(w, st, over) ==
    /\ st \in Seq(Frame)
    /\ Open(st) \subseteq Named(w) \ over
    /\ \A i, j \in DOMAIN st : st[i].id = st[j].id => i = j
    /\ \A i \in DOMAIN st :
         \A id \in Needs(w, st[i].id) \ st[i].rest :
           id \in over \/ (i + 1 \in DOMAIN st /\ st[i + 1].id = id)
    /\ \A i \in DOMAIN st : st[i].rest \subseteq Needs(w, st[i].id)
    /\ \A rank \in Numbers(w) : \A i, j \in DOMAIN st :
         i < j => rank[StepIn(w, st[j].id)] < rank[StepIn(w, st[i].id)]

\* The ids in "over" can be numbered: in the order in which their calls end.
Numbered(w, over) ==
    /\ over \subseteq Named(w)
    /\ \A id \in over : Needs(w, id) \subseteq over
    /\ \E f \in [over -> 1..Cardinality(over)] :
         \A id \in over : \A d \in Needs(w, id) : f[d] < f[id]

Search(w) ==
    /\ Path(w, stack, visited)
    /\ visiting = Open(stack)
    /\ Numbered(w, visited)
    /\ next \in 1..(N + 1)
    /\ \A s \in Steps : s < next => w.id[s] \in visited \cup visiting

Compiled == {"graph", "rejected", "accepted", "failed", "succeeded", "stalled"}

Fresh == stack = <<>> /\ visiting = {} /\ visited = {} /\ next = 1

SearchInv ==
    /\ source \in Sources
    /\ pc \in {"source", "duplicate", "normalized", "unknown", "visit", "cycle"} \cup Compiled
    /\ pc \in {"source", "normalized"} => Fresh
    /\ pc = "normalized" => Unique(source)
    /\ pc \in {"visit", "cycle"} \cup Compiled => Checked(source)
    /\ pc = "visit" => Search(source)
    /\ pc = "cycle" => Numbers(source) = {}
    /\ pc \in Compiled => Numbers(source) # {}

-----------------------------------------------------------------------------
(* Workflows.                                                              *)

LEMMA NIsPositive == N \in Nat \ {0} /\ Steps = 1..N /\ Ids = 1..(N + 1)
  BY WorkflowAssumption DEF Steps, Ids

LEMMA SourceFields ==
    ASSUME NEW w \in Sources
    PROVE  /\ w.id \in [Steps -> Steps] /\ w.dependsOn \in [Steps -> SUBSET Ids]
           /\ w.action \in [Steps -> Actions] /\ w.cell \in [Steps -> Cells \cup {None}]
           /\ Named(w) \subseteq Steps /\ Named(w) \subseteq Ids
  <1>1. /\ w.id \in [Steps -> Steps] /\ w.dependsOn \in [Steps -> SUBSET Ids]
        /\ w.action \in [Steps -> Actions] /\ w.cell \in [Steps -> Cells \cup {None}]
    BY DEF Sources
  <1>2. Steps \subseteq Ids
    BY NIsPositive
  <1> QED BY <1>1, <1>2 DEF Named

\* The step of an id is the one that has it.
LEMMA StepOfId ==
    ASSUME NEW w \in Sources, Checked(w)
    PROVE  /\ \A id \in Named(w) : StepIn(w, id) \in Steps /\ w.id[StepIn(w, id)] = id
           /\ \A s \in Steps : StepIn(w, w.id[s]) = s
           /\ \A id \in Named(w) : Needs(w, id) \subseteq Named(w) /\ Needs(w, id) \subseteq Ids
  <1>1. ASSUME NEW id \in Named(w) PROVE StepIn(w, id) \in Steps /\ w.id[StepIn(w, id)] = id
    <2>1. \E s \in Steps : w.id[s] = id
      BY DEF Named
    <2> QED BY <2>1 DEF StepIn
  <1>2. ASSUME NEW s \in Steps PROVE StepIn(w, w.id[s]) = s
    <2>1. w.id[s] \in Named(w)
      BY DEF Named
    <2> QED BY <1>1, <2>1 DEF Checked, Unique
  <1>3. ASSUME NEW id \in Named(w) PROVE Needs(w, id) \subseteq Named(w) /\ Needs(w, id) \subseteq Ids
    BY <1>1, SourceFields DEF Needs, Checked
  <1> QED BY <1>1, <1>2, <1>3

\* In a numbering a dependency comes before what depends on it.
LEMMA NeedsComeBefore ==
    ASSUME NEW w \in Sources, Checked(w), NEW rank \in Numbers(w), NEW id \in Named(w),
           NEW d \in Needs(w, id)
    PROVE  /\ rank[StepIn(w, d)] < rank[StepIn(w, id)]
           /\ rank[StepIn(w, d)] \in Nat /\ rank[StepIn(w, id)] \in Nat
  <1>1. d \in Named(w)
    BY StepOfId
  <1>2. /\ StepIn(w, id) \in Steps /\ StepIn(w, d) \in Steps
        /\ w.id[StepIn(w, d)] \in w.dependsOn[StepIn(w, id)]
    BY <1>1, StepOfId DEF Needs
  <1>3. rank \in [Steps -> Steps] /\ Steps \subseteq Nat
    BY NIsPositive DEF Numbers
  <1> QED BY <1>2, <1>3 DEF Numbers

-----------------------------------------------------------------------------
(* Numberings.                                                             *)

LEMMA NothingIsNumbered == ASSUME NEW w PROVE Numbered(w, {})
  <1>1. PICK f : f \in [{} -> 1..Cardinality({})]
    <2>1. [x \in {} |-> 0] \in [{} -> 1..Cardinality({})]
      OBVIOUS
    <2> QED BY <2>1
  <1> QED BY <1>1 DEF Numbered

\* An id whose dependencies are over gets the next number.
LEMMA OneMoreNumbered ==
    ASSUME NEW w \in Sources, NEW over, Numbered(w, over), NEW id \in Named(w) \ over,
           Needs(w, id) \subseteq over
    PROVE  Numbered(w, over \cup {id})
  <1> DEFINE n == Cardinality(over)
             more == over \cup {id}
  <1>1. PICK f \in [over -> 1..n] : \A x \in over : \A d \in Needs(w, x) : f[d] < f[x]
    BY DEF Numbered
  <1>2. over \subseteq Named(w) /\ \A x \in over : Needs(w, x) \subseteq over
    BY DEF Numbered
  <1>3. IsFiniteSet(over) /\ n \in Nat
    <2>1. IsFiniteSet(Steps)
      BY NIsPositive, FS_Interval
    <2>2. over \subseteq Steps
      BY <1>2, SourceFields
    <2> QED BY <2>1, <2>2, FS_Subset, FS_CardinalityType
  <1>4. Cardinality(more) = n + 1
    BY <1>3, FS_AddElement
  <1> HIDE DEF n
  <1>5. PICK g : g = [x \in more |-> IF x = id THEN n + 1 ELSE f[x]]
    OBVIOUS
  <1>6. g \in [more -> 1..(n + 1)]
    BY <1>1, <1>3, <1>5
  <1>7. ASSUME NEW x \in more, NEW d \in Needs(w, x) PROVE g[d] < g[x]
    <2>1. d \in over /\ d # id /\ g[d] = f[d] /\ f[d] \in 1..n
      BY <1>1, <1>2, <1>5
    <2>2. CASE x = id
      BY <1>3, <1>5, <2>1, <2>2
    <2>3. CASE x # id
      BY <1>1, <1>5, <2>1, <2>3
    <2> QED BY <2>2, <2>3
  <1>8. more \subseteq Named(w) /\ \A x \in more : Needs(w, x) \subseteq more
    BY <1>2
  <1> QED BY <1>4, <1>6, <1>7, <1>8 DEF Numbered

\* When all ids are over, the order in which they ended numbers the steps.
LEMMA AllNumbered ==
    ASSUME NEW w \in Sources, Checked(w), NEW over, Numbered(w, over),
           \A s \in Steps : w.id[s] \in over
    PROVE  Numbers(w) # {}
  <1> DEFINE n == Cardinality(over)
  <1>1. PICK f \in [over -> 1..n] : \A x \in over : \A d \in Needs(w, x) : f[d] < f[x]
    BY DEF Numbered
  <1>2. n \in Nat /\ n =< N
    <2>1. IsFiniteSet(Steps) /\ Cardinality(Steps) = N
      BY NIsPositive, FS_Interval
    <2>2. over \subseteq Steps
      BY SourceFields DEF Numbered
    <2> QED BY <2>1, <2>2, FS_Subset, FS_CardinalityType
  <1> HIDE DEF n
  <1>3. PICK rank : rank = [s \in Steps |-> f[w.id[s]]]
    OBVIOUS
  <1>4. rank \in [Steps -> Steps]
    <2>1. \A s \in Steps : f[w.id[s]] \in 1..N
      BY <1>1, <1>2, NIsPositive
    <2> QED BY <1>3, <2>1, NIsPositive
  <1>5. ASSUME NEW s \in Steps, NEW t \in Steps, w.id[t] \in w.dependsOn[s]
        PROVE  rank[t] < rank[s]
    <2>1. w.id[t] \in Needs(w, w.id[s])
      BY <1>5, StepOfId DEF Needs
    <2> QED BY <1>1, <1>3, <2>1
  <1> QED BY <1>4, <1>5 DEF Numbers

-----------------------------------------------------------------------------
(* The open calls of the search.                                           *)

LEMMA NoCallIsAPath == ASSUME NEW w, NEW over PROVE Path(w, <<>>, over) /\ Open(<<>>) = {}
  <1>1. <<>> \in Seq(Frame) /\ Len(<<>>) = 0 /\ DOMAIN <<>> = {}
    BY EmptySeq
  <1> QED BY <1>1 DEF Path, Open

LEMMA PathFields ==
    ASSUME NEW w, NEW st, NEW over, Path(w, st, over)
    PROVE  /\ Len(st) \in Nat /\ DOMAIN st = 1..Len(st)
           /\ \A i \in 1..Len(st) : /\ st[i].id \in Named(w) \ over /\ st[i].id \in Open(st)
                                    /\ st[i] \in Frame /\ st[i].id \in Ids
                                    /\ st[i].rest \in SUBSET Ids
  <1>1. st \in Seq(Frame) /\ Len(st) \in Nat /\ DOMAIN st = 1..Len(st)
    BY DEF Path
  <1>2. \A i \in 1..Len(st) : st[i] \in Frame
    BY <1>1
  <1> QED BY <1>1, <1>2 DEF Path, Open, Frame

\* Frames "fr" are those of "st", with id taken off the list of the latest call.
Taken(fr, st, id) ==
    /\ fr \in Seq(Frame)
    /\ Len(fr) = Len(st)
    /\ \A i \in 1..Len(st) :
         /\ fr[i].id = st[i].id
         /\ fr[i].rest = IF i = Len(st) THEN st[i].rest \ {id} ELSE st[i].rest

\* The latest call, the calls below it, and the calls with one of id on top.
Latest(st) == st[Len(st)]

Below(st) == SubSeq(st, 1, Len(st) - 1)

Entered(w, fr, id) == Append(fr, [id |-> id, rest |-> Needs(w, id)])

LEMMA TakenIsSo ==
    ASSUME NEW w, NEW st, NEW over, Path(w, st, over), st # <<>>, NEW id, NEW fr,
           fr = Append(Below(st), [Latest(st) EXCEPT !.rest = @ \ {id}])
    PROVE  Taken(fr, st, id)
  <1>1. PICK n \in Nat : n = Len(st) /\ n > 0 /\ st \in Seq(Frame)
    <2>1. st \in Seq(Frame)
      BY DEF Path
    <2> QED BY <2>1
  <1>2. PICK e : e = [st[n] EXCEPT !.rest = @ \ {id}]
    OBVIOUS
  <1>3. n \in 1..n /\ \A i \in 1..n : st[i] \in Frame
    BY <1>1
  <1>4. e \in Frame /\ e.id = st[n].id /\ e.rest = st[n].rest \ {id}
    BY <1>2, <1>3 DEF Frame
  <1> DEFINE low == SubSeq(st, 1, n - 1)
  <1>5. low \in Seq(Frame) /\ Len(low) = n - 1 /\ \A i \in 1..(n - 1) : low[i] = st[i]
    <2>1. 1 \in Int /\ n - 1 \in Int /\ \A i \in 1..(n - 1) : st[i] \in Frame
      BY <1>3
    <2>2. /\ low \in Seq(Frame)
          /\ Len(low) = IF 1 =< n - 1 THEN (n - 1) - 1 + 1 ELSE 0
          /\ \A i \in 1..((n - 1) - 1 + 1) : low[i] = st[1 + i - 1]
      BY <2>1, SubSeqProperties
    <2> HIDE DEF low
    <2>3. (n - 1) - 1 + 1 = n - 1 /\ \A i \in 1..(n - 1) : 1 + i - 1 = i
      OBVIOUS
    <2>4. ~(1 =< n - 1) => n - 1 = 0
      BY <1>1
    <2>5. Len(low) = n - 1
      BY <2>2, <2>3, <2>4
    <2> QED BY <2>2, <2>3, <2>5
  <1> HIDE DEF low
  <1>6. fr = Append(low, e)
    BY <1>1, <1>2 DEF low, Below, Latest
  <1>7. /\ fr \in Seq(Frame) /\ Len(fr) = (n - 1) + 1
        /\ \A i \in 1..(n - 1) : fr[i] = low[i]
        /\ fr[(n - 1) + 1] = e
    <2>1. low \in Seq(Frame) /\ e \in Frame
      BY <1>4, <1>5
    <2>2. /\ Append(low, e) \in Seq(Frame) /\ Len(Append(low, e)) = Len(low) + 1
          /\ \A i \in 1..Len(low) : Append(low, e)[i] = low[i]
          /\ Append(low, e)[Len(low) + 1] = e
      BY <2>1, AppendProperties
    <2>3. Len(low) = n - 1
      BY <1>5
    <2> QED BY <1>6, <2>2, <2>3, Zenon
  <1>8. \A i \in 1..n : i \in 1..(n - 1) \/ i = n
    BY <1>1
  <1>9. Len(fr) = n /\ fr[n] = e
    BY <1>1, <1>7
  <1>10. ASSUME NEW i \in 1..n
         PROVE  /\ fr[i].id = st[i].id
                /\ fr[i].rest = IF i = n THEN st[i].rest \ {id} ELSE st[i].rest
    <2>1. CASE i = n
      BY <1>4, <1>9, <2>1
    <2>2. CASE i # n
      BY <1>5, <1>7, <1>8, <2>2
    <2> QED BY <2>1, <2>2
  <1> QED BY <1>1, <1>7, <1>9, <1>10 DEF Taken

\* A dependency that is over is taken off the list.
LEMMA VisitedIsTaken ==
    ASSUME NEW w, NEW st, NEW over, Path(w, st, over), NEW id \in over, NEW fr, Taken(fr, st, id)
    PROVE  Path(w, fr, over) /\ Open(fr) = Open(st)
  <1>1. /\ fr \in Seq(Frame) /\ Len(fr) = Len(st) /\ Len(st) \in Nat
        /\ DOMAIN fr = 1..Len(st) /\ DOMAIN st = 1..Len(st)
    BY PathFields DEF Taken
  <1>2. \A i \in DOMAIN st : /\ fr[i].id = st[i].id /\ fr[i].rest \subseteq st[i].rest
                             /\ \A x \in st[i].rest \ fr[i].rest : x = id
    BY <1>1 DEF Taken
  <1>3. Open(fr) = Open(st)
    BY <1>1, <1>2 DEF Open
  <1>4. ASSUME NEW i \in DOMAIN fr, NEW x \in Needs(w, fr[i].id) \ fr[i].rest
        PROVE  x \in over \/ (i + 1 \in DOMAIN fr /\ fr[i + 1].id = x)
    <2>1. CASE x \in st[i].rest
      BY <1>1, <1>2, <2>1
    <2>2. CASE x \notin st[i].rest
      BY <1>1, <1>2, <2>2 DEF Path
    <2> QED BY <2>1, <2>2
  <1>5. \A i \in DOMAIN fr : fr[i].rest \subseteq Needs(w, fr[i].id)
    BY <1>1, <1>2 DEF Path
  <1>6. \A i, j \in DOMAIN fr : fr[i].id = fr[j].id => i = j
    BY <1>1, <1>2 DEF Path
  <1>7. \A rank \in Numbers(w) : \A i, j \in DOMAIN fr :
          i < j => rank[StepIn(w, fr[j].id)] < rank[StepIn(w, fr[i].id)]
    BY <1>1, <1>2 DEF Path
  <1> QED BY <1>1, <1>3, <1>4, <1>5, <1>6, <1>7 DEF Path

\* The numbers fall from a call that is open to a dependency of the latest one.
LEMMA NumbersFall ==
    ASSUME NEW w \in Sources, Checked(w), NEW st, NEW over, Path(w, st, over),
           NEW n \in DOMAIN st, n = Len(st), NEW id \in Needs(w, st[n].id),
           NEW rank \in Numbers(w), NEW i \in DOMAIN st
    PROVE  rank[StepIn(w, id)] < rank[StepIn(w, st[i].id)]
  <1>1. n \in 1..n /\ n \in Nat /\ i \in 1..n /\ st[n].id \in Named(w) /\ st[i].id \in Named(w)
    BY PathFields
  <1>2. rank[StepIn(w, id)] < rank[StepIn(w, st[n].id)]
    BY <1>1, NeedsComeBefore
  <1>3. i < n => rank[StepIn(w, st[n].id)] < rank[StepIn(w, st[i].id)]
    BY DEF Path
  <1>4. /\ rank[StepIn(w, id)] \in Nat /\ rank[StepIn(w, st[n].id)] \in Nat
        /\ rank[StepIn(w, st[i].id)] \in Nat
    <2>1. id \in Named(w)
      BY <1>1, StepOfId
    <2>2. rank \in [Steps -> Steps] /\ Steps \subseteq Nat
      BY NIsPositive DEF Numbers
    <2> QED BY <1>1, <2>1, <2>2, StepOfId
  <1>5. i = n \/ i < n
    BY <1>1
  <1> QED BY <1>2, <1>3, <1>4, <1>5

\* A dependency of the latest call that is itself being visited closes a cycle.
LEMMA OpenIsACycle ==
    ASSUME NEW w \in Sources, Checked(w), NEW st, NEW over, Path(w, st, over), st # <<>>,
           NEW id \in Needs(w, Latest(st).id), id \in Open(st)
    PROVE  Numbers(w) = {}
  <1> SUFFICES ASSUME NEW rank \in Numbers(w) PROVE FALSE
    OBVIOUS
  <1>1. PICK i \in DOMAIN st : st[i].id = id
    BY DEF Open
  <1>2. Len(st) \in DOMAIN st
    <2>1. st \in Seq(Frame)
      BY DEF Path
    <2> QED BY <2>1
  <1>3. PICK n \in DOMAIN st : n = Len(st)
    BY <1>2
  <1>4. rank[StepIn(w, id)] < rank[StepIn(w, st[i].id)]
    BY <1>3, NumbersFall DEF Latest
  <1>5. rank[StepIn(w, id)] \in Nat
    <2>1. id \in Named(w)
      BY <1>1 DEF Path, Open
    <2>2. rank \in [Steps -> Steps] /\ Steps \subseteq Nat
      BY NIsPositive DEF Numbers
    <2> QED BY <2>1, <2>2, StepOfId
  <1> QED BY <1>1, <1>4, <1>5

\* An id that is visited first is a call of its own, below the call that depends on it.
LEMMA VisitOpens ==
    ASSUME NEW w \in Sources, Checked(w), NEW st, NEW over, Path(w, st, over),
           NEW id \in Named(w) \ over, id \notin Open(st),
           st # <<>> => id \in Needs(w, Latest(st).id),
           NEW fr, Taken(fr, st, id)
    PROVE  Path(w, Entered(w, fr, id), over) /\ Open(Entered(w, fr, id)) = Open(st) \cup {id}
  <1> DEFINE new == Entered(w, fr, id)
  <1>1. PICK n \in Nat : /\ n = Len(st) /\ Len(fr) = n /\ fr \in Seq(Frame)
                         /\ DOMAIN st = 1..n /\ (n > 0 => st # <<>>)
    <2>1. st \in Seq(Frame) /\ Len(st) \in Nat /\ DOMAIN st = 1..Len(st)
      BY PathFields DEF Path
    <2> QED BY <2>1 DEF Taken
  <1>2. PICK e : e = [id |-> id, rest |-> Needs(w, id)]
    OBVIOUS
  <1>3. e \in Frame /\ e.id = id /\ e.rest = Needs(w, id)
    BY <1>2, StepOfId, SourceFields DEF Frame
  <1>4. /\ new \in Seq(Frame) /\ Len(new) = n + 1 /\ new[n + 1] = e
        /\ \A i \in 1..n : new[i] = fr[i]
    <2>1. /\ Append(fr, e) \in Seq(Frame) /\ Len(Append(fr, e)) = Len(fr) + 1
          /\ \A i \in 1..Len(fr) : Append(fr, e)[i] = fr[i]
          /\ Append(fr, e)[Len(fr) + 1] = e
      BY <1>1, <1>3, AppendProperties
    <2>2. new = Append(fr, e) /\ Len(fr) = n
      BY <1>1, <1>2 DEF Entered
    <2> HIDE DEF new
    <2> QED BY <2>1, <2>2, Zenon
  <1> HIDE DEF new
  <1>5. /\ DOMAIN new = 1..(n + 1) /\ n + 1 \in 1..(n + 1)
        /\ \A i \in 1..(n + 1) : i \in 1..n \/ i = n + 1
        /\ \A i \in 1..n : i \in 1..(n + 1) /\ i # n + 1
    BY <1>4
  <1>6. \A i \in 1..n : /\ new[i].id = st[i].id
                        /\ new[i].rest = IF i = n THEN st[i].rest \ {id} ELSE st[i].rest
    BY <1>1, <1>4 DEF Taken
  <1>7. new[n + 1].id = id /\ new[n + 1].rest = Needs(w, id)
    BY <1>3, <1>4
  <1>8. Open(new) = Open(st) \cup {id}
    <2>1. ASSUME NEW x \in Open(new) PROVE x \in Open(st) \cup {id}
      <3>1. PICK i \in 1..(n + 1) : x = new[i].id
        BY <1>5 DEF Open
      <3>2. CASE i \in 1..n
        BY <1>1, <1>6, <3>1, <3>2 DEF Open
      <3>3. CASE i = n + 1
        BY <1>7, <3>1, <3>3
      <3> QED BY <1>5, <3>2, <3>3
    <2>2. ASSUME NEW x \in Open(st) PROVE x \in Open(new)
      <3>1. PICK i \in 1..n : x = st[i].id
        BY <1>1 DEF Open
      <3>2. i \in DOMAIN new /\ x = new[i].id
        BY <1>5, <1>6, <3>1
      <3> QED BY <3>2 DEF Open
    <2>3. id \in Open(new)
      BY <1>5, <1>7 DEF Open
    <2> QED BY <2>1, <2>2, <2>3
  <1>9. \A i, j \in DOMAIN new : new[i].id = new[j].id => i = j
    <2>1. \A i \in 1..n : new[i].id \in Open(st)
      BY <1>1, <1>6 DEF Open
    <2>2. \A i, j \in 1..n : new[i].id = new[j].id => i = j
      BY <1>1, <1>6 DEF Path
    <2> QED BY <1>5, <1>7, <2>1, <2>2
  <1>10. ASSUME NEW i \in DOMAIN new, NEW x \in Needs(w, new[i].id) \ new[i].rest
         PROVE  x \in over \/ (i + 1 \in DOMAIN new /\ new[i + 1].id = x)
    <2>1. CASE i = n + 1
      BY <1>7, <1>10, <2>1
    <2>2. CASE i \in 1..n /\ x \notin st[i].rest
      <3>1. x \in over \/ (i + 1 \in 1..n /\ st[i + 1].id = x)
        BY <1>1, <1>6, <1>10, <2>2 DEF Path
      <3> QED BY <1>5, <1>6, <3>1
    <2>3. CASE i \in 1..n /\ x \in st[i].rest
      <3>1. i = n /\ x = id
        BY <1>6, <1>10, <2>3
      <3> QED BY <1>5, <1>7, <3>1
    <2> QED BY <1>5, <2>1, <2>2, <2>3
  <1>11. \A i \in DOMAIN new : new[i].rest \subseteq Needs(w, new[i].id)
    <2>1. \A i \in 1..n : new[i].rest \subseteq Needs(w, new[i].id)
      BY <1>1, <1>6 DEF Path
    <2> QED BY <1>5, <1>7, <2>1
  <1>12. ASSUME NEW rank \in Numbers(w), NEW i \in DOMAIN new, NEW j \in DOMAIN new, i < j
         PROVE  rank[StepIn(w, new[j].id)] < rank[StepIn(w, new[i].id)]
    <2>1. i \in 1..n
      BY <1>1, <1>5, <1>12
    <2>2. CASE j \in 1..n
      BY <1>1, <1>6, <1>12, <2>1, <2>2 DEF Path
    <2>3. CASE j = n + 1
      <3>1. n \in DOMAIN st /\ n = Len(st) /\ id \in Needs(w, st[n].id) /\ i \in DOMAIN st
        BY <1>1, <2>1 DEF Latest
      <3>2. rank[StepIn(w, id)] < rank[StepIn(w, st[i].id)]
        BY <3>1, NumbersFall
      <3>3. new[j].id = id /\ new[i].id = st[i].id
        BY <1>6, <1>7, <2>1, <2>3
      <3> QED BY <3>2, <3>3, Zenon
    <2> QED BY <1>5, <2>2, <2>3
  <1>13. Open(new) \subseteq Named(w) \ over
    BY <1>8 DEF Path
  <1> QED BY <1>4, <1>8, <1>9, <1>10, <1>11, <1>12, <1>13 DEF Path, new

\* The call that ends has been through all its dependencies.
LEMMA LeaveCloses ==
    ASSUME NEW w \in Sources, Checked(w), NEW st, NEW over, Path(w, st, over), st # <<>>,
           Latest(st).rest = {}, NEW id, id = Latest(st).id
    PROVE  /\ Path(w, Below(st), over \cup {id}) /\ Open(Below(st)) = Open(st) \ {id}
           /\ id \in Named(w) \ over /\ Needs(w, id) \subseteq over
  <1> DEFINE low == Below(st)
  <1>1. PICK n \in Nat : n = Len(st) /\ n > 0 /\ DOMAIN st = 1..n /\ st \in Seq(Frame)
    <2>1. st \in Seq(Frame) /\ Len(st) \in Nat /\ DOMAIN st = 1..Len(st)
      BY PathFields DEF Path
    <2>2. Len(st) > 0
      <3>1. st \in Seq(Frame)
        BY <2>1
      <3> QED BY <3>1
    <2> QED BY <2>1, <2>2
  <1>2. n \in 1..n /\ n + 1 \notin 1..n /\ \A i \in 1..n : st[i] \in Frame
    BY <1>1
  <1>3. low \in Seq(Frame) /\ Len(low) = n - 1 /\ \A i \in 1..(n - 1) : low[i] = st[i]
    <2>1. 1 \in Int /\ n - 1 \in Int /\ \A i \in 1..(n - 1) : st[i] \in Frame
      BY <1>2
    <2>2. low = SubSeq(st, 1, n - 1)
      BY <1>1 DEF Below
    <2>3. /\ low \in Seq(Frame)
          /\ Len(low) = IF 1 =< n - 1 THEN (n - 1) - 1 + 1 ELSE 0
          /\ \A i \in 1..((n - 1) - 1 + 1) : low[i] = st[1 + i - 1]
      BY <2>1, <2>2, SubSeqProperties
    <2> HIDE DEF low
    <2>4. (n - 1) - 1 + 1 = n - 1 /\ \A i \in 1..(n - 1) : 1 + i - 1 = i
      OBVIOUS
    <2>5. ~(1 =< n - 1) => n - 1 = 0
      BY <1>1
    <2>6. Len(low) = n - 1
      BY <2>3, <2>4, <2>5
    <2> QED BY <2>3, <2>4, <2>6
  <1> HIDE DEF low
  <1>4. /\ DOMAIN low = 1..(n - 1)
        /\ \A i \in 1..n : i \in 1..(n - 1) \/ i = n
        /\ \A i \in 1..(n - 1) : i \in 1..n /\ i # n
    BY <1>1, <1>3
  <1>5. id = st[n].id /\ st[n].rest = {} /\ id \in Named(w) \ over
    BY <1>1, <1>2, PathFields DEF Latest
  <1>6. Needs(w, id) \subseteq over
    BY <1>1, <1>2, <1>5 DEF Path
  <1>7. \A i \in 1..(n - 1) : st[i].id # id
    BY <1>1, <1>2, <1>4, <1>5 DEF Path
  <1>8. Open(low) = Open(st) \ {id}
    <2>1. ASSUME NEW x \in Open(low) PROVE x \in Open(st) /\ x # id
      <3>1. PICK i \in 1..(n - 1) : x = low[i].id
        BY <1>4 DEF Open
      <3>2. x = st[i].id /\ i \in DOMAIN st /\ x # id
        BY <1>1, <1>3, <1>4, <1>7, <3>1
      <3> QED BY <3>2 DEF Open
    <2>2. \A x \in Open(st) : x # id => x \in Open(low)
      BY <1>1, <1>3, <1>4, <1>5 DEF Open
    <2> QED BY <2>1, <2>2
  <1>9. ASSUME NEW i \in DOMAIN low, NEW x \in Needs(w, low[i].id) \ low[i].rest
        PROVE  x \in over \cup {id} \/ (i + 1 \in DOMAIN low /\ low[i + 1].id = x)
    <2>1. i \in 1..n /\ i \in 1..(n - 1) /\ low[i] = st[i]
      BY <1>3, <1>4
    <2>2. x \in over \/ (i + 1 \in 1..n /\ st[i + 1].id = x)
      BY <1>1, <1>9, <2>1 DEF Path
    <2> QED BY <1>3, <1>4, <1>5, <2>2
  <1>10. \A i \in DOMAIN low : low[i].rest \subseteq Needs(w, low[i].id)
    BY <1>1, <1>3, <1>4 DEF Path
  <1>11. \A i, j \in DOMAIN low : low[i].id = low[j].id => i = j
    <2>1. \A i, j \in 1..n : st[i].id = st[j].id => i = j
      BY <1>1 DEF Path
    <2> QED BY <1>3, <1>4, <2>1
  <1>12. \A rank \in Numbers(w) : \A i, j \in DOMAIN low :
           i < j => rank[StepIn(w, low[j].id)] < rank[StepIn(w, low[i].id)]
    BY <1>1, <1>3, <1>4 DEF Path
  <1>13. Open(low) \subseteq Named(w) \ (over \cup {id})
    BY <1>8 DEF Path
  <1> QED BY <1>3, <1>5, <1>6, <1>8, <1>9, <1>10, <1>11, <1>12, <1>13 DEF Path, low

-----------------------------------------------------------------------------
(* The steps of the search.                                                *)

\* A call of visit finds its id done with, closes a cycle, or opens.
LEMMA VisitKeeps ==
    ASSUME NEW w \in Sources, w = source, Checked(w), Path(w, stack, visited), visiting = Open(stack),
           pc = "visit", NEW id \in Named(w),
           stack # <<>> => id \in Needs(w, Latest(stack).id),
           NEW fr, Taken(fr, stack, id), Visit(id, fr)
    PROVE  \/ pc' = "cycle" /\ Numbers(w) = {}
           \/ /\ pc' = "visit"
              /\ Path(w, stack', visited)
              /\ visiting' = Open(stack')
              /\ id \in visited \cup visiting' /\ visiting \subseteq visiting'
  <1>1. PICK st, over : st = stack /\ over = visited
    OBVIOUS
  <1>2. Path(w, st, over) /\ Taken(fr, st, id)
    BY <1>1
  <1>3. CASE id \in visited
    <2>1. stack' = fr /\ pc' = "visit" /\ visiting' = visiting
      BY <1>3 DEF Visit
    <2>2. Path(w, fr, over) /\ Open(fr) = Open(st)
      BY <1>1, <1>2, <1>3, VisitedIsTaken
    <2> QED BY <1>1, <1>3, <2>1, <2>2
  <1>4. CASE id \in visiting \ visited
    <2>1. pc' = "cycle"
      BY <1>4 DEF Visit
    <2>2. id \in Open(st) /\ st # <<>>
      BY <1>1, <1>4, NoCallIsAPath
    <2>3. Numbers(w) = {}
      BY <1>1, <1>2, <2>2, OpenIsACycle
    <2> QED BY <2>1, <2>3
  <1>5. CASE id \notin visiting \cup visited
    <2>1. PICK new : new = Entered(w, fr, id)
      OBVIOUS
    <2>2. stack' = new /\ visiting' = visiting \cup {id} /\ pc' = "visit"
      <3>1. source.dependsOn[StepOf(id)] = Needs(source, id)
        BY DEF Needs, StepIn, StepOf
      <3> QED BY <1>5, <2>1, <3>1 DEF Visit, Entered
    <2>3. id \in Named(w) \ over /\ id \notin Open(st) /\ (st # <<>> => id \in Needs(w, Latest(st).id))
      BY <1>1, <1>5
    <2>4. Path(w, new, over) /\ Open(new) = Open(st) \cup {id}
      BY <1>2, <2>1, <2>3, VisitOpens
    <2> QED BY <1>1, <2>2, <2>4
  <1> QED BY <1>3, <1>4, <1>5

LEMMA VisitStepKeeps ==
    ASSUME SearchInv, VisitStep
    PROVE  SearchInv'
  <1>1. PICK w \in Sources : w = source
    BY DEF SearchInv
  <1>2. /\ source' = w /\ pc = "visit" /\ stack = <<>> /\ next =< N /\ next' = next + 1
        /\ visited' = visited /\ Visit(source.id[next], stack)
    BY <1>1 DEF VisitStep
  <1>3. /\ Checked(w) /\ Path(w, stack, visited) /\ visiting = Open(stack) /\ Numbered(w, visited)
        /\ next \in 1..(N + 1) /\ \A s \in Steps : s < next => w.id[s] \in visited \cup visiting
    BY <1>1, <1>2 DEF SearchInv, Search
  <1>4. next \in Steps
    BY <1>2, <1>3, NIsPositive
  <1>5. PICK id, fr : id = w.id[next] /\ fr = stack
    OBVIOUS
  <1>6. id \in Named(w) /\ Taken(fr, stack, id) /\ Visit(id, fr)
    <2>1. Len(stack) = 0 /\ stack \in Seq(Frame)
      BY <1>2, EmptySeq
    <2>2. \A i \in 1..Len(stack) : FALSE
      BY <2>1
    <2> QED BY <1>1, <1>2, <1>4, <1>5, <2>1, <2>2 DEF Named, Taken
  <1>7. \/ pc' = "cycle" /\ Numbers(w) = {}
        \/ /\ pc' = "visit"
           /\ Path(w, stack', visited)
           /\ visiting' = Open(stack')
           /\ id \in visited \cup visiting' /\ visiting \subseteq visiting'
    BY <1>1, <1>2, <1>3, <1>6, VisitKeeps
  <1>8. CASE pc' = "cycle"
    BY <1>1, <1>2, <1>3, <1>7, <1>8 DEF SearchInv, Compiled
  <1>9. CASE pc' = "visit"
    <2>1. next' \in 1..(N + 1) /\ \A s \in Steps : s < next' => s < next \/ s = next
      BY <1>2, <1>3, <1>4, NIsPositive
    <2>2. \A s \in Steps : s < next' => w.id[s] \in visited \cup visiting'
      BY <1>3, <1>5, <1>7, <1>9, <2>1
    <2>3. Search(source)'
      BY <1>2, <1>3, <1>7, <1>9, <2>1, <2>2 DEF Search
    <2> QED BY <1>2, <1>3, <1>9, <2>3 DEF SearchInv, Compiled
  <1> QED BY <1>7, <1>8, <1>9

LEMMA VisitDependencyKeeps ==
    ASSUME SearchInv, VisitDependency
    PROVE  SearchInv'
  <1>1. PICK w \in Sources : w = source
    BY DEF SearchInv
  <1>2. PICK id \in Top.rest : Visit(id, Append(Callers, [Top EXCEPT !.rest = @ \ {id}]))
    BY DEF VisitDependency
  <1>3. /\ source' = w /\ pc = "visit" /\ stack # <<>> /\ next' = next /\ visited' = visited
    BY <1>1 DEF VisitDependency
  <1>4. /\ Checked(w) /\ Path(w, stack, visited) /\ visiting = Open(stack) /\ Numbered(w, visited)
        /\ next \in 1..(N + 1) /\ \A s \in Steps : s < next => w.id[s] \in visited \cup visiting
    BY <1>1, <1>3 DEF SearchInv, Search
  <1>5. PICK st, over, fr :
          /\ st = stack /\ over = visited
          /\ fr = Append(Below(st), [Latest(st) EXCEPT !.rest = @ \ {id}])
    OBVIOUS
  <1>6. Path(w, st, over) /\ st # <<>> /\ id \in Latest(st).rest /\ Visit(id, fr)
    <2>1. Top = Latest(st) /\ Callers = Below(st)
      BY <1>5 DEF Top, Callers, Latest, Below
    <2> QED BY <1>2, <1>3, <1>4, <1>5, <2>1
  <1>7. Taken(fr, stack, id)
    BY <1>5, <1>6, TakenIsSo
  <1>8. Len(st) \in DOMAIN st
    <2>1. st \in Seq(Frame)
      BY <1>6 DEF Path
    <2> QED BY <1>6, <2>1
  <1>9. id \in Needs(w, Latest(st).id) /\ Latest(st).id \in Named(w)
    BY <1>6, <1>8 DEF Path, Open, Latest
  <1>10. id \in Named(w) /\ (stack # <<>> => id \in Needs(w, Latest(stack).id))
    BY <1>4, <1>5, <1>9, StepOfId
  <1>11. \/ pc' = "cycle" /\ Numbers(w) = {}
         \/ /\ pc' = "visit"
            /\ Path(w, stack', visited)
            /\ visiting' = Open(stack')
            /\ id \in visited \cup visiting' /\ visiting \subseteq visiting'
    BY <1>1, <1>3, <1>4, <1>6, <1>7, <1>10, VisitKeeps
  <1>12. CASE pc' = "cycle"
    BY <1>1, <1>3, <1>4, <1>11, <1>12 DEF SearchInv, Compiled
  <1>13. CASE pc' = "visit"
    <2>1. Search(source)'
      BY <1>3, <1>4, <1>11, <1>13 DEF Search
    <2> QED BY <1>3, <1>4, <1>13, <2>1 DEF SearchInv, Compiled
  <1> QED BY <1>11, <1>12, <1>13

LEMMA LeaveKeeps ==
    ASSUME SearchInv, Leave
    PROVE  SearchInv'
  <1>1. PICK w \in Sources : w = source
    BY DEF SearchInv
  <1>2. /\ source' = w /\ pc = "visit" /\ pc' = pc /\ stack # <<>> /\ next' = next
    BY <1>1 DEF Leave
  <1>3. /\ Checked(w) /\ Path(w, stack, visited) /\ visiting = Open(stack) /\ Numbered(w, visited)
        /\ next \in 1..(N + 1) /\ \A s \in Steps : s < next => w.id[s] \in visited \cup visiting
    BY <1>1, <1>2 DEF SearchInv, Search
  <1>4. PICK st, over, low, id :
          st = stack /\ over = visited /\ low = Below(st) /\ id = Latest(st).id
    OBVIOUS
  <1>5. Latest(st).rest = {} /\ stack' = low /\ visiting' = visiting \ {id}
        /\ visited' = over \cup {id} /\ Path(w, st, over) /\ st # <<>>
    <2>1. Top = Latest(st) /\ Callers = low
      BY <1>4 DEF Top, Callers, Latest, Below
    <2>2. Top.id = id
      BY <1>4, <2>1
    <2>3. /\ Top.rest = {} /\ stack' = Callers /\ visiting' = visiting \ {Top.id}
          /\ visited' = visited \cup {Top.id}
      BY DEF Leave, Left
    <2> QED BY <1>2, <1>3, <1>4, <2>1, <2>2, <2>3
  <1>6. /\ Path(w, low, over \cup {id}) /\ Open(low) = Open(st) \ {id}
        /\ id \in Named(w) \ over /\ Needs(w, id) \subseteq over
    BY <1>3, <1>4, <1>5, LeaveCloses
  <1>7. Numbered(w, over \cup {id})
    BY <1>3, <1>4, <1>6, OneMoreNumbered
  <1>8. \A s \in Steps : s < next => w.id[s] \in visited' \cup visiting'
    BY <1>3, <1>4, <1>5
  <1>9. Search(source)'
    BY <1>2, <1>3, <1>4, <1>5, <1>6, <1>7, <1>8 DEF Search
  <1> QED BY <1>2, <1>3, <1>9 DEF SearchInv, Compiled

LEMMA EndVisitsKeeps ==
    ASSUME SearchInv, EndVisits
    PROVE  SearchInv'
  <1>1. PICK w \in Sources : w = source
    BY DEF SearchInv
  <1>2. source' = w /\ pc = "visit" /\ pc' = "graph" /\ stack = <<>> /\ next > N
    BY <1>1 DEF EndVisits
  <1>3. /\ Checked(w) /\ visiting = Open(stack) /\ Numbered(w, visited)
        /\ next \in 1..(N + 1) /\ \A s \in Steps : s < next => w.id[s] \in visited \cup visiting
    BY <1>1, <1>2 DEF SearchInv, Search
  <1>4. \A s \in Steps : s < next
    BY <1>2, <1>3, NIsPositive
  <1>5. \A s \in Steps : w.id[s] \in visited
    BY <1>2, <1>3, <1>4, NoCallIsAPath
  <1>6. Numbers(w) # {}
    BY <1>3, <1>5, AllNumbered
  <1> QED BY <1>2, <1>3, <1>6 DEF SearchInv, Compiled

LEMMA NormalizeKeeps ==
    ASSUME SearchInv, Normalize
    PROVE  SearchInv'
  <1>1. PICK w \in Sources : w = source /\ source' = w
    BY DEF SearchInv, Normalize
  <1>2. Fresh' /\ pc = "source"
    BY DEF SearchInv, Normalize, Fresh
  <1>3. Duplicates = {} => Unique(w)
    <2> SUFFICES ASSUME Duplicates = {}, NEW s \in Steps, NEW t \in Steps, w.id[s] = w.id[t], s # t
                 PROVE  FALSE
      BY DEF Unique
    <2>1. s < t \/ t < s
      BY NIsPositive
    <2> QED BY <1>1, <2>1 DEF Duplicates
  <1>4. pc' = "duplicate" \/ (pc' = "normalized" /\ Unique(w))
    BY <1>3 DEF Normalize
  <1> QED BY <1>1, <1>2, <1>4 DEF SearchInv, Compiled

LEMMA CheckIdsKeeps ==
    ASSUME SearchInv, CheckIds
    PROVE  SearchInv'
  <1>1. PICK w \in Sources : w = source /\ source' = w
    BY DEF SearchInv, CheckIds
  <1>2. /\ Unique(w) /\ stack' = <<>> /\ visiting' = {} /\ visited' = {} /\ next' = 1
    BY <1>1 DEF SearchInv, CheckIds, Fresh
  <1>3. pc' = "unknown" \/ (pc' = "visit" /\ Checked(w))
    BY <1>1, <1>2 DEF CheckIds, Checked, NamedIds, Named
  <1>4. Search(source)'
    <2>1. Path(w, <<>>, {}) /\ Open(<<>>) = {} /\ Numbered(w, {})
      BY NoCallIsAPath, NothingIsNumbered
    <2>2. 1 \in 1..(N + 1) /\ \A s \in Steps : ~(s < 1)
      BY NIsPositive
    <2> QED BY <1>1, <1>2, <2>1, <2>2 DEF Search
  <1> QED BY <1>1, <1>3, <1>4 DEF SearchInv, Compiled

LEMMA SearchInvKept == SearchInv /\ [Next]_vars => SearchInv'
  <1> SUFFICES ASSUME SearchInv, [Next]_vars PROVE SearchInv'
    OBVIOUS
  <1>1. CASE Normalize \/ CheckIds \/ VisitStep \/ VisitDependency \/ Leave \/ EndVisits
    BY <1>1, NormalizeKeeps, CheckIdsKeeps, VisitStepKeeps, VisitDependencyKeeps, LeaveKeeps,
       EndVisitsKeeps
  <1>2. CASE Classify \/ Dispatch \/ Finish
    <2>1. PICK w : w = source /\ source' = w
      BY <1>2 DEF Classify, Dispatch, Finish
    <2>2. pc \in Compiled /\ pc' \in Compiled
      BY <1>2 DEF Classify, Dispatch, Finish, Compiled
    <2>3. w \in Sources /\ Checked(w) /\ Numbers(w) # {}
      BY <2>1, <2>2 DEF SearchInv
    <2> QED BY <2>1, <2>2, <2>3 DEF SearchInv, Compiled
  <1>3. CASE UNCHANGED vars
    BY <1>3 DEF vars, SearchInv, Search, Fresh
  <1> QED BY <1>1, <1>2, <1>3 DEF Next

LEMMA InitSearchInv == Init => SearchInv
  BY WorkflowAssumption DEF Init, SearchInv, Fresh, Compiled

LEMMA AcyclicHasNumbers == Acyclic <=> Numbers(source) # {}
  BY DEF Acyclic, Numbers

-----------------------------------------------------------------------------
(* Execution.                                                              *)

Executing == {"accepted", "failed", "succeeded", "stalled"}

\* What is known of a workflow that was accepted, and of the steps that were run.
ExecutionInv ==
    /\ done \subseteq Steps /\ failed \subseteq Steps
    /\ pc \notin Executing => done = {}
    /\ pc \notin {"failed"} => failed = {}
    /\ pc \in Executing => Failures(RunEnabled) = {}
    /\ \A s \in done : Handled(CellOf(s), source.action[s])
    /\ \A s \in failed : ~Handled(CellOf(s), source.action[s])
    /\ pc # "stalled"

Least == OpToRel(<, Nat)

\* A set of natural numbers that is not empty has a least one.
LEMMA LeastNumber ==
    ASSUME NEW S \in SUBSET Nat, S # {}
    PROVE  \E i \in S : \A j \in S : ~(j < i)
  <1>1. IsWellFoundedOn(Least, Nat)
    BY NatLessThanWellFounded DEF Least
  <1>2. \A i, j \in Nat : i < j => <<i, j>> \in Least
    BY DEF Least, OpToRel
  <1>3. PICK i \in S : \A j \in S : ~(<<j, i>> \in Least)
    BY <1>1, WFMin
  <1> QED BY <1>2, <1>3

\* As long as a step is not done, the one with the least number can run.
LEMMA SomeStepIsRunnable ==
    ASSUME SearchInv, ExecutionInv, pc = "accepted", done # Steps
    PROVE  NextRunnable # {}
  <1>1. PICK w \in Sources : w = source
    BY DEF SearchInv
  <1>2. Checked(w) /\ failed = {} /\ done \subseteq Steps
    BY <1>1 DEF SearchInv, Compiled, ExecutionInv
  <1>3. PICK rank : rank \in Numbers(w)
    BY <1>1 DEF SearchInv, Compiled
  <1>4. rank \in [Steps -> Steps] /\ Steps \subseteq Nat
    BY <1>3, NIsPositive DEF Numbers
  <1> DEFINE ranks == {rank[s] : s \in Steps \ done}
  <1>5. ranks \in SUBSET Nat /\ ranks # {}
    BY <1>2, <1>4
  <1>6. PICK i \in ranks : \A j \in ranks : ~(j < i)
    BY <1>5, LeastNumber
  <1>7. PICK s \in Steps \ done : rank[s] = i
    BY <1>6
  <1>8. ASSUME NEW d \in w.dependsOn[s] PROVE d \in {w.id[t] : t \in done}
    <2>1. PICK t \in Steps : d = w.id[t]
      BY <1>2 DEF Checked, Named
    <2>2. rank[t] < rank[s]
      BY <1>3, <2>1 DEF Numbers
    <2>3. t \in done
      BY <1>6, <1>7, <2>2
    <2> QED BY <2>1, <2>3
  <1>9. s \in NextRunnable
    BY <1>1, <1>2, <1>7, <1>8 DEF NextRunnable
  <1> QED BY <1>9

LEMMA ExecutionInvKept == SearchInv /\ ExecutionInv /\ [Next]_vars => ExecutionInv'
  <1> SUFFICES ASSUME SearchInv, ExecutionInv, [Next]_vars PROVE ExecutionInv'
    OBVIOUS
  <1>1. source' = source /\ lane' = lane
    BY DEF Next, Normalize, CheckIds, VisitStep, VisitDependency, Leave, EndVisits, Classify,
           Dispatch, Finish, vars
  <1>2. UNCHANGED Failures(RunEnabled)
    BY <1>1 DEF Failures, RunEnabled, Resolved, StepsOf, CellOf
  <1>3. \A s \in Steps : Handled(CellOf(s), source.action[s])' <=> Handled(CellOf(s), source.action[s])
    BY <1>1 DEF CellOf
  <1>4. CASE UNCHANGED <<pc, done, failed>>
    BY <1>2, <1>3, <1>4 DEF ExecutionInv
  <1>5. CASE Normalize \/ CheckIds \/ EndVisits
    <2>1. UNCHANGED <<done, failed>> /\ pc \notin Executing /\ pc' \notin Executing
      BY <1>5 DEF Normalize, CheckIds, EndVisits, Executing
    <2> QED BY <2>1 DEF ExecutionInv, Executing
  <1>6. CASE VisitStep \/ VisitDependency
    <2>1. UNCHANGED <<done, failed>> /\ pc = "visit" /\ pc' \in {"visit", "cycle"}
      BY <1>6 DEF VisitStep, VisitDependency, Visit
    <2> QED BY <2>1 DEF ExecutionInv, Executing
  <1>7. CASE Classify
    <2>1. UNCHANGED <<done, failed>> /\ pc = "graph" /\ pc' \in {"rejected", "accepted"}
      BY <1>7 DEF Classify
    <2>2. pc' = "accepted" => Failures(RunEnabled) = {}
      BY <1>7 DEF Classify, Decision
    <2> QED BY <1>2, <2>1, <2>2 DEF ExecutionInv, Executing
  <1>8. CASE Dispatch
    <2>1. PICK s \in NextRunnable :
            IF Handled(CellOf(s), source.action[s])
            THEN done' = done \cup {s} /\ UNCHANGED <<pc, failed>>
            ELSE failed' = failed \cup {s} /\ pc' = "failed" /\ UNCHANGED done
      BY <1>8 DEF Dispatch
    <2>2. s \in Steps /\ pc = "accepted" /\ failed = {}
      BY <1>8, <2>1 DEF Dispatch, NextRunnable, ExecutionInv
    <2> QED BY <1>2, <1>3, <2>1, <2>2 DEF ExecutionInv, Executing
  <1>9. CASE Finish
    <2>1. UNCHANGED <<done, failed>> /\ pc = "accepted" /\ done = Steps
      BY <1>9, SomeStepIsRunnable DEF Finish
    <2>2. pc' = "succeeded"
      BY <1>9, <2>1 DEF Finish
    <2> QED BY <1>2, <1>3, <2>1, <2>2 DEF ExecutionInv, Executing
  <1>10. CASE Leave
    BY <1>4, <1>10 DEF Leave
  <1>11. CASE UNCHANGED vars
    BY <1>4, <1>11 DEF vars
  <1> QED BY <1>5, <1>6, <1>7, <1>8, <1>9, <1>10, <1>11 DEF Next

LEMMA InitExecutionInv == Init => ExecutionInv
  BY DEF Init, ExecutionInv, Executing

LEMMA PreflightSafety == Spec => [](SearchInv /\ ExecutionInv)
  <1>1. Init => SearchInv /\ ExecutionInv
    BY InitSearchInv, InitExecutionInv
  <1>2. SearchInv /\ ExecutionInv /\ [Next]_vars => SearchInv' /\ ExecutionInv'
    BY SearchInvKept, ExecutionInvKept
  <1> QED BY <1>1, <1>2, PTL DEF Spec

-----------------------------------------------------------------------------
\* detectCycles is right about every workflow, whatever its size and the order of
\* its dependencies: the calls that are open follow dependencies, so that one that
\* meets itself has closed a cycle; and the order in which calls end numbers the
\* steps, so that a search that ends without one has shown that there is none.
THEOREM CyclesAreAlwaysFound == Spec => []CyclesAreFound
  <1>1. SearchInv => CyclesAreFound
    BY AcyclicHasNumbers DEF SearchInv, CyclesAreFound, Compiled
  <1> QED BY <1>1, PreflightSafety, PTL

\* The loop over the runnable steps ends with all steps done or one failed.
THEOREM AcceptedRunsGoOn == Spec => []AcceptedNeverStalls
  <1>1. ExecutionInv => AcceptedNeverStalls
    BY DEF ExecutionInv, AcceptedNeverStalls
  <1> QED BY <1>1, PreflightSafety, PTL

\* Of an accepted workflow, the actions the cells know are those the policy
\* artifact allows.
LEMMA AllowedAreHandled ==
    ASSUME SearchInv, Failures(RunEnabled) = {}, NEW s \in Steps
    PROVE  source.action[s] \in Allowed(RunEnabled, CellOf(s)) <=> Handled(CellOf(s), source.action[s])
  <1>1. CellOf(s) \in Cells /\ source.action[s] \in Actions
    <2>1. source.action[s] \in Actions /\ source.cell[s] \in Cells \cup {None}
      BY SourceFields DEF SearchInv
    <2> QED BY <2>1 DEF CellOf, InferCell, Cells, Actions
  <1>2. CellOf(s) = "elevated" => StepsOf("elevated") # {} /\ RunEnabled
    BY DEF Failures, StepsOf
  <1> QED BY <1>1, <1>2 DEF Allowed, Handled, Cells, Actions

\* The classifier, the policy artifact and the cells agree about every step that
\* is run, in every workflow and configuration.
THEOREM OnlyAllowedActionsSucceed == Spec => []OnlyAllowedSucceed
  <1>1. SearchInv /\ ExecutionInv => OnlyAllowedSucceed
    <2> SUFFICES ASSUME SearchInv, ExecutionInv PROVE OnlyAllowedSucceed
      OBVIOUS
    <2>1. done # {} \/ failed # {} => Failures(RunEnabled) = {}
      BY DEF ExecutionInv, Executing
    <2>2. \A s \in done \cup failed :
            source.action[s] \in Allowed(RunEnabled, CellOf(s)) <=> Handled(CellOf(s), source.action[s])
      BY <2>1, AllowedAreHandled DEF ExecutionInv
    <2> QED BY <2>2 DEF ExecutionInv, OnlyAllowedSucceed
  <1> QED BY <1>1, PreflightSafety, PTL

\* Where a dry run and a run decide differently, the caller has said of the
\* elevated lane what the environment does not.
THEOREM DryRunsForetell == Spec => []DryRunForetells
  <1>1. DryRunForetells
    <2>1. lane.caller \in {None, lane.env} => RunEnabled = DryRunEnabled
      BY DEF RunEnabled, DryRunEnabled, Resolved
    <2>2. StepsOf("elevated") = {} => Failures(RunEnabled) = {} /\ Failures(DryRunEnabled) = {}
      BY DEF Failures
    <2> QED BY <2>1, <2>2 DEF DryRunForetells, Decision
  <1> QED BY <1>1, PTL

=============================================================================
