------------------------- MODULE RunDirectoryProofs -------------------------
(***************************************************************************)
(* Proofs about the key files and the directories of runs, for any number  *)
(* of callers, runs and secrets.                                           *)
(***************************************************************************)
EXTENDS RunDirectory, SequenceTheorems, NaturalsInduction, WellFoundedInduction, TLAPS

Held == Secrets \cup {None}

\* A record of a command: whatever it has to do, its keys are keys.
IsCall(c) ==
    /\ c = [todo |-> c.todo, run |-> c.run, open |-> c.open, secret |-> c.secret]
    /\ c.open \in BOOLEAN
    /\ c.secret \in [Lanes -> Held]

KeyTypes ==
    /\ key \in [Lanes -> Secrets \cup {None, "empty"}]
    /\ call = [p \in Callers |-> call[p]]
    /\ \A p \in Callers : IsCall(call[p])

\* While one caller makes a key there is none on file, hence none in use.
OneMaker(k) ==
    /\ \A p \in Callers : Making(p, k) => key[k] \notin Secrets
    /\ \A p, q \in Callers : Making(p, k) /\ Making(q, k) => p = q

Agreed(k) == \A p \in Callers : call[p].secret[k] \in {None, key[k]}

KeyInv == KeyTypes /\ \A k \in Lanes \ raced : OneMaker(k) /\ Agreed(k)

-----------------------------------------------------------------------------
LEMMA IdleIsCall == IsCall(Idle) /\ Idle.secret = [k \in Lanes |-> None] /\ ~Idle.open
  BY DEF Idle, IsCall, Held

\* What a caller holds after an access it held before, or it is done.
LEMMA AccessedIsCall ==
    ASSUME NEW c, IsCall(c)
    PROVE  /\ IsCall(Accessed(c))
           /\ ~Accessed(c).open
           /\ Accessed(c).secret \in {c.secret, Idle.secret}
  <1>1. CASE Len(c.todo) = 1
    BY <1>1, IdleIsCall DEF Accessed
  <1>2. CASE Len(c.todo) # 1
    BY <1>2 DEF Accessed, IsCall
  <1> QED BY <1>1, <1>2

\* One caller changes its record, makes no key afterwards and holds none that is
\* new, and the keys stay as they are: the invariant is kept.
LEMMA OneMoves ==
    ASSUME KeyInv, UNCHANGED <<key, raced>>,
           NEW p \in Callers, NEW c, IsCall(c),
           \A k \in Lanes : c.secret[k] \in {call[p].secret[k], None},
           call' = [call EXCEPT ![p] = c],
           \A k \in Lanes : ~Making(p, k)'
    PROVE  KeyInv'
  <1>1. KeyTypes'
    BY DEF KeyInv, KeyTypes, IsCall
  <1>2. \A q \in Callers : call'[q] = IF q = p THEN c ELSE call[q]
    BY DEF KeyInv, KeyTypes
  <1>3. \A q \in Callers, k \in Lanes : Making(q, k)' => Making(q, k)
    BY <1>2 DEF Making, At
  <1>4. ASSUME NEW k \in Lanes \ raced'
        PROVE  OneMaker(k)' /\ Agreed(k)'
    <2>1. OneMaker(k) /\ Agreed(k)
      BY DEF KeyInv
    <2>2. OneMaker(k)'
      BY <2>1, <1>3 DEF OneMaker
    <2>3. Agreed(k)'
      BY <2>1, <1>2 DEF Agreed
    <2> QED BY <2>2, <2>3
  <1> QED BY <1>1, <1>4 DEF KeyInv

-----------------------------------------------------------------------------
LEMMA InitKeyInv == Init => KeyInv
  <1> SUFFICES ASSUME Init PROVE KeyInv
    OBVIOUS
  <1>1. KeyTypes
    BY IdleIsCall DEF Init, KeyTypes
  <1>2. \A p \in Callers, k \in Lanes : ~Making(p, k) /\ call[p].secret[k] = None
    BY IdleIsCall DEF Init, Making
  <1> QED BY <1>1, <1>2 DEF KeyInv, OneMaker, Agreed

LEMMA StartsInv ==
    ASSUME KeyInv, UNCHANGED <<key, raced>>, NEW p \in Callers, NEW script, NEW r,
           call[p] = Idle, Starts(p, script, r)
    PROVE  KeyInv'
  <1> DEFINE c == [Idle EXCEPT !.todo = script, !.run = r]
  <1>1. IsCall(c) /\ ~c.open /\ c.secret = Idle.secret
    <2> DEFINE i == Idle
    <2>1. IsCall(i) /\ i = Idle
      BY IdleIsCall
    <2>2. c = [i EXCEPT !.todo = script, !.run = r]
      OBVIOUS
    <2> HIDE DEF c, i
    <2>3. c = [todo |-> script, run |-> r, open |-> i.open, secret |-> i.secret]
      BY <2>1, <2>2 DEF IsCall
    <2> QED BY <2>1, <2>3, IdleIsCall DEF IsCall
  <1>2. call' = [call EXCEPT ![p] = c]
    BY DEF Starts
  <1>3. \A k \in Lanes : ~Making(p, k)'
    BY <1>1, <1>2 DEF Making, KeyInv, KeyTypes
  <1>4. \A k \in Lanes : c.secret[k] \in {call[p].secret[k], None}
    BY <1>1
  <1> HIDE DEF c
  <1> QED BY <1>1, <1>2, <1>3, <1>4, OneMoves

\* A caller makes its access and holds what it held, or it is done.
LEMMA AccessInv ==
    ASSUME KeyInv, UNCHANGED <<key, raced>>, NEW p \in Callers, NEW c,
           c = Accessed(call[p]) \/ c = Idle \/ (\E r : c = [Accessed(call[p]) EXCEPT !.run = r]),
           call' = [call EXCEPT ![p] = c]
    PROVE  KeyInv'
  <1>1. IsCall(call[p])
    BY DEF KeyInv, KeyTypes
  <1>2. IsCall(c) /\ ~c.open /\ c.secret \in {call[p].secret, Idle.secret}
    <2>1. CASE c = Accessed(call[p])
      BY <2>1, <1>1, AccessedIsCall
    <2>2. CASE c = Idle
      BY <2>2, IdleIsCall
    <2>3. CASE \E r : c = [Accessed(call[p]) EXCEPT !.run = r]
      <3> PICK r : c = [Accessed(call[p]) EXCEPT !.run = r]
        BY <2>3
      <3> DEFINE a == Accessed(call[p])
      <3>1. IsCall(a) /\ ~a.open /\ a.secret \in {call[p].secret, Idle.secret}
        BY <1>1, AccessedIsCall
      <3>2. c = [a EXCEPT !.run = r]
        OBVIOUS
      <3> HIDE DEF a
      <3> QED BY <3>1, <3>2 DEF IsCall
    <2> QED BY <2>1, <2>2, <2>3
  <1>3. \A k \in Lanes : c.secret[k] \in {call[p].secret[k], None}
    BY <1>2, IdleIsCall
  <1>4. \A k \in Lanes : ~Making(p, k)'
    BY <1>2 DEF Making, KeyInv, KeyTypes
  <1> QED BY <1>2, <1>3, <1>4, OneMoves

LEMMA OpenFileInv ==
    ASSUME KeyInv, NEW p \in Callers, OpenFile(p)
    PROVE  KeyInv'
  <1> PICK f \in Files : /\ At(p, Write(f))
                         /\ call' = [call EXCEPT ![p].open = TRUE]
                         /\ UNCHANGED <<key, raced>>
    BY DEF OpenFile
  <1> DEFINE c == [call[p] EXCEPT !.open = TRUE]
  <1>1. IsCall(call[p]) /\ call = [q \in Callers |-> call[q]]
    BY DEF KeyInv, KeyTypes
  <1>2. IsCall(c) /\ c.secret = call[p].secret /\ c.todo = call[p].todo
    <2> DEFINE d == call[p]
    <2>1. IsCall(d) /\ c = [d EXCEPT !.open = TRUE]
      BY <1>1
    <2>2. d = call[p]
      OBVIOUS
    <2> HIDE DEF c, d
    <2>3. c = [todo |-> d.todo, run |-> d.run, open |-> TRUE, secret |-> d.secret]
      BY <2>1 DEF IsCall
    <2> QED BY <2>1, <2>2, <2>3 DEF IsCall
  <1>3. call' = [call EXCEPT ![p] = c]
    OBVIOUS
  <1>4. \A k \in Lanes : ~Making(p, k)'
    <2>1. call'[p].todo = call[p].todo
      BY <1>1, <1>2, <1>3
    <2>2. \A k \in Lanes : Load(k) # Write(f)
      BY DEF Load, Write
    <2> QED BY <2>1, <2>2 DEF Making, At
  <1> HIDE DEF c
  <1> QED BY <1>2, <1>3, <1>4, OneMoves

LEMMA CrashInv ==
    ASSUME KeyInv, Crash
    PROVE  KeyInv'
  <1> PICK dead \in {{p} : p \in Cli} \cup {Plugin} :
         /\ call' = [p \in Callers |-> IF p \in dead THEN Idle ELSE call[p]]
         /\ UNCHANGED <<key, raced>>
    BY DEF Crash
  <1>1. \A p \in Callers : call'[p] = Idle \/ call'[p] = call[p]
    OBVIOUS
  <1>2. KeyTypes'
    BY <1>1, IdleIsCall DEF KeyInv, KeyTypes, IsCall
  <1>3. \A p \in Callers, k \in Lanes : Making(p, k)' => Making(p, k)
    BY <1>1, IdleIsCall DEF Making, At
  <1>4. \A p \in Callers, k \in Lanes : call'[p].secret[k] \in {call[p].secret[k], None}
    BY <1>1, IdleIsCall
  <1> QED BY <1>2, <1>3, <1>4 DEF KeyInv, OneMaker, Agreed

-----------------------------------------------------------------------------
(* loadKey.                                                                *)

LEMMA OneLane ==
    ASSUME NEW p, NEW k \in Lanes, At(p, Load(k)), NEW j \in Lanes, At(p, Load(j))
    PROVE  j = k
  BY DEF At, Load

\* What the record of p is once it has the key s of lane k.
LEMMA TakesKey ==
    ASSUME NEW c, IsCall(c), NEW k \in Lanes, NEW s \in Secrets,
           NEW d, d = WithKey(c, k, s)
    PROVE  /\ IsCall(d)
           /\ ~d.open
           /\ d.secret[k] = s
           /\ \A j \in Lanes \ {k} : d.secret[j] \in {c.secret[j], None}
  <1> DEFINE a == Accessed(c)
  <1>1. IsCall(a) /\ ~a.open /\ a.secret \in {c.secret, Idle.secret}
    BY AccessedIsCall
  <1>2. d = [a EXCEPT !.secret[k] = s]
    BY DEF WithKey
  <1> HIDE DEF a
  <1>3. d = [todo |-> a.todo, run |-> a.run, open |-> a.open,
             secret |-> [a.secret EXCEPT ![k] = s]]
    BY <1>1, <1>2 DEF IsCall
  <1>4. d.secret = [a.secret EXCEPT ![k] = s] /\ d.open = a.open
    BY <1>3
  <1>5. d.secret \in [Lanes -> Held]
    BY <1>1, <1>4, IdleIsCall DEF IsCall, Held
  <1>6. IsCall(d)
    BY <1>1, <1>3, <1>4, <1>5 DEF IsCall
  <1>7. d.secret[k] = s /\ \A j \in Lanes \ {k} : d.secret[j] = a.secret[j]
    BY <1>1, <1>4 DEF IsCall
  <1> QED BY <1>1, <1>4, <1>6, <1>7, IdleIsCall

LEMMA ReadKeyInv ==
    ASSUME KeyInv, NEW p \in Callers, ReadKey(p)
    PROVE  KeyInv'
  <1> PICK k \in Lanes :
         /\ At(p, Load(k)) /\ ~call[p].open
         /\ IF Parsed(k)
            THEN /\ call' = [call EXCEPT ![p] = WithKey(@, k, key[k])]
                 /\ UNCHANGED raced
            ELSE /\ call' = [call EXCEPT ![p].open = TRUE]
                 /\ raced' = IF \E q \in Callers : Making(q, k) THEN raced \cup {k} ELSE raced
         /\ UNCHANGED key
    BY DEF ReadKey
  <1>0. /\ IsCall(call[p])
        /\ call = [q \in Callers |-> call[q]]
        /\ \A q \in Callers : IsCall(call[q])
        /\ key \in [Lanes -> Secrets \cup {None, "empty"}]
    BY DEF KeyInv, KeyTypes
  <1>1. CASE Parsed(k)
    <2> DEFINE d == WithKey(call[p], k, key[k])
    <2>1. /\ IsCall(d) /\ ~d.open /\ d.secret[k] = key[k]
          /\ \A j \in Lanes \ {k} : d.secret[j] \in {call[p].secret[j], None}
      BY <1>0, <1>1, TakesKey DEF Parsed
    <2>2. call' = [call EXCEPT ![p] = d] /\ UNCHANGED raced
      BY <1>1
    <2> HIDE DEF d
    <2>3. \A q \in Callers : call'[q] = IF q = p THEN d ELSE call[q]
      BY <1>0, <2>2
    <2>4. KeyTypes'
      BY <1>0, <2>1, <2>2, <2>3 DEF KeyTypes, IsCall
    <2>5. \A q \in Callers, j \in Lanes : Making(q, j)' => Making(q, j)
      BY <2>1, <2>3 DEF Making, At
    <2>6. \A j \in Lanes : Agreed(j) => Agreed(j)'
      BY <2>1, <2>3 DEF Agreed
    <2> QED BY <2>2, <2>4, <2>5, <2>6 DEF KeyInv, OneMaker
  <1>2. CASE ~Parsed(k)
    <2> DEFINE c == call[p]
               d == [c EXCEPT !.open = TRUE]
    <2>1. call' = [call EXCEPT ![p] = d]
      BY <1>2
    <2>2. IsCall(c) /\ c = call[p] /\ d = [c EXCEPT !.open = TRUE]
      BY <1>0
    <2> HIDE DEF c, d
    <2>3. d = [todo |-> c.todo, run |-> c.run, open |-> TRUE, secret |-> c.secret]
      BY <2>2 DEF IsCall
    <2>4. IsCall(d) /\ d.todo = c.todo /\ d.secret = c.secret
      BY <2>2, <2>3 DEF IsCall
    <2>5. \A q \in Callers : call'[q] = IF q = p THEN d ELSE call[q]
      BY <1>0, <2>1
    <2>6. KeyTypes'
      BY <1>0, <2>1, <2>4, <2>5 DEF KeyTypes, IsCall
    <2>7. \A q \in Callers, j \in Lanes : Making(q, j)' => Making(q, j) \/ (q = p /\ j = k)
      <3>1. \A q \in Callers : call'[q].todo = call[q].todo
        BY <2>2, <2>4, <2>5
      <3>2. \A q \in Callers, j \in Lanes : At(q, Load(j))' <=> At(q, Load(j))
        BY <3>1 DEF At
      <3>3. \A j \in Lanes : At(p, Load(j)) => j = k
        BY OneLane
      <3>4. \A q \in Callers : q # p => call'[q] = call[q]
        BY <2>5
      <3> QED BY <3>2, <3>3, <3>4 DEF Making
    <2>8. \A j \in Lanes : Agreed(j) => Agreed(j)'
      BY <2>2, <2>4, <2>5 DEF Agreed
    <2>9. raced \subseteq raced' /\ (k \notin raced' => \A q \in Callers : ~Making(q, k))
      BY <1>2
    <2>10. \A j \in Lanes \ raced' : OneMaker(j)'
      BY <1>2, <2>7, <2>9 DEF KeyInv, OneMaker, Parsed
    <2> QED BY <2>6, <2>8, <2>9, <2>10 DEF KeyInv
  <1> QED BY <1>1, <1>2

LEMMA OpenKeyInv ==
    ASSUME KeyInv, NEW p \in Callers, OpenKey(p)
    PROVE  KeyInv'
  <1> PICK k \in Lanes : /\ Making(p, k)
                         /\ key' = [key EXCEPT ![k] = "empty"]
                         /\ UNCHANGED <<call, raced>>
    BY DEF OpenKey
  <1>1. KeyTypes'
    BY DEF KeyInv, KeyTypes, IsCall
  <1>2. \A q \in Callers, j \in Lanes : Making(q, j)' <=> Making(q, j)
    BY DEF Making, At
  <1>3. \A q \in Callers : call[q].secret \in [Lanes -> Held]
    BY DEF KeyInv, KeyTypes, IsCall
  <1>4. \A j \in Lanes : key'[j] = IF j = k THEN "empty" ELSE key[j]
    BY DEF KeyInv, KeyTypes
  <1>5. ASSUME NEW j \in Lanes \ raced
        PROVE  OneMaker(j)' /\ Agreed(j)'
    <2>1. OneMaker(j) /\ Agreed(j)
      BY DEF KeyInv
    <2>2. OneMaker(j)'
      BY <1>2, <1>4, <2>1, DirectoryAssumption DEF OneMaker
    <2>3. CASE j = k
      <3>1. key[k] \notin Secrets
        BY <2>1, <2>3 DEF OneMaker
      <3>2. \A q \in Callers : call[q].secret[k] = None
        BY <1>3, <2>1, <2>3, <3>1 DEF Agreed, Held
      <3> QED BY <2>2, <2>3, <3>2 DEF Agreed
    <2>4. CASE j # k
      BY <1>4, <2>1, <2>2, <2>4 DEF Agreed
    <2> QED BY <2>3, <2>4
  <1> QED BY <1>1, <1>5 DEF KeyInv

LEMMA FillKeyInv ==
    ASSUME KeyInv, NEW p \in Callers, FillKey(p)
    PROVE  KeyInv'
  <1> PICK k \in Lanes, s \in Fresh :
         /\ Making(p, k)
         /\ key' = [key EXCEPT ![k] = s]
         /\ call' = [call EXCEPT ![p] = WithKey(@, k, s)]
         /\ UNCHANGED raced
    BY DEF FillKey
  <1> DEFINE d == WithKey(call[p], k, s)
  <1>0. /\ s \in Secrets
        /\ call = [q \in Callers |-> call[q]]
        /\ \A q \in Callers : IsCall(call[q])
        /\ key \in [Lanes -> Secrets \cup {None, "empty"}]
    BY DEF KeyInv, KeyTypes, Fresh
  <1>1. /\ IsCall(d) /\ ~d.open /\ d.secret[k] = s
        /\ \A j \in Lanes \ {k} : d.secret[j] \in {call[p].secret[j], None}
    BY <1>0, TakesKey
  <1>2. call' = [call EXCEPT ![p] = d]
    OBVIOUS
  <1> HIDE DEF d
  <1>3. \A q \in Callers : call'[q] = IF q = p THEN d ELSE call[q]
    BY <1>0, <1>2
  <1>4. \A j \in Lanes : key'[j] = IF j = k THEN s ELSE key[j]
    BY <1>0
  <1>5. KeyTypes'
    <2>1. key' \in [Lanes -> Secrets \cup {None, "empty"}]
      BY <1>0
    <2> QED BY <1>0, <1>1, <1>2, <1>3, <2>1 DEF KeyTypes, IsCall
  <1>6. \A q \in Callers, j \in Lanes : Making(q, j)' => q # p /\ Making(q, j)
    BY <1>1, <1>3 DEF Making, At
  <1>7. ASSUME NEW j \in Lanes \ raced
        PROVE  OneMaker(j)' /\ Agreed(j)'
    <2>1. OneMaker(j) /\ Agreed(j)
      BY DEF KeyInv
    <2>2. CASE j = k
      <3>1. key[k] \notin Secrets /\ \A q \in Callers : Making(q, k) => q = p
        BY <2>1, <2>2 DEF OneMaker
      <3>2. \A q \in Callers : call[q].secret[k] = None
        BY <1>0, <2>1, <2>2, <3>1 DEF Agreed, Held, IsCall
      <3>3. \A q \in Callers : ~Making(q, k)'
        BY <1>6, <3>1
      <3> QED BY <1>1, <1>3, <1>4, <2>2, <3>2, <3>3 DEF OneMaker, Agreed
    <2>3. CASE j # k
      BY <1>1, <1>3, <1>4, <1>6, <2>1, <2>3 DEF OneMaker, Agreed
    <2> QED BY <2>2, <2>3
  <1> QED BY <1>5, <1>7 DEF KeyInv

-----------------------------------------------------------------------------
LEMMA KeyInvKept == KeyInv /\ [Next]_vars => KeyInv'
  <1> SUFFICES ASSUME KeyInv, [Next]_vars PROVE KeyInv'
    OBVIOUS
  <1>1. ASSUME NEW p \in Callers, StartCommand(p) PROVE KeyInv'
    <2>1. UNCHANGED <<key, raced>> /\ call[p] = Idle /\ \E script, r : Starts(p, script, r)
      BY <1>1 DEF StartCommand
    <2> QED BY <2>1, StartsInv
  <1>2. ASSUME NEW p \in Callers, EnsureRun(p) PROVE KeyInv'
    <2>1. PICK r : call' = [call EXCEPT ![p] = [Accessed(@) EXCEPT !.run = r]]
      BY <1>2 DEF EnsureRun
    <2>2. UNCHANGED <<key, raced>>
      BY <1>2 DEF EnsureRun
    <2> QED BY <2>1, <2>2, AccessInv
  <1>3. ASSUME NEW p \in Callers, FillFile(p) \/ ReadFile(p) PROVE KeyInv'
    <2>1. /\ UNCHANGED <<key, raced>>
          /\ \/ call' = [call EXCEPT ![p] = Accessed(@)]
             \/ call' = [call EXCEPT ![p] = Idle]
      BY <1>3 DEF FillFile, ReadFile
    <2> QED BY <2>1, AccessInv
  <1>4. ASSUME NEW p \in Callers, OpenFile(p) \/ ReadKey(p) \/ OpenKey(p) \/ FillKey(p)
        PROVE KeyInv'
    BY <1>4, OpenFileInv, ReadKeyInv, OpenKeyInv, FillKeyInv
  <1>5. CASE Crash
    BY <1>5, CrashInv
  <1>6. CASE UNCHANGED vars
    BY <1>6 DEF vars, KeyInv, KeyTypes, IsCall, OneMaker, Agreed, Making, At
  <1> QED BY <1>1, <1>2, <1>3, <1>4, <1>5, <1>6 DEF Next, Step

\* Two commands hold different keys of a lane only if both were making it at
\* once, with any number of processes and wherever they are killed.
THEOREM HoldersOfKeysAgree == Spec => []HoldersAgree
  <1>1. KeyInv => HoldersAgree
    BY DEF KeyInv, Agreed, HoldersAgree
  <1> QED BY <1>1, InitKeyInv, KeyInvKept, PTL DEF Spec

-----------------------------------------------------------------------------
\* A command that neither reads nor makes a key is left with those it had, or is done.
LEMMA SecretsStay ==
    ASSUME KeyInv, NEW p \in Callers,
           StartCommand(p) \/ EnsureRun(p) \/ OpenFile(p) \/ FillFile(p) \/ ReadFile(p),
           NEW q \in Callers, NEW k \in Lanes
    PROVE  call'[q].secret[k] \in {call[q].secret[k], None}
  <1>0. /\ call = [o \in Callers |-> call[o]]
        /\ IsCall(call[p])
        /\ Accessed(call[p]).secret \in {call[p].secret, Idle.secret}
        /\ IsCall(Accessed(call[p]))
    BY AccessedIsCall DEF KeyInv, KeyTypes
  <1>1. CASE StartCommand(p)
    <2> PICK script, r : Starts(p, script, r)
      BY <1>1 DEF StartCommand
    <2>1. call'[p].secret[k] = None
      <3> DEFINE i == Idle
                 c == [i EXCEPT !.todo = script, !.run = r]
      <3>1. call'[p] = c
        BY <1>0 DEF Starts
      <3>2. IsCall(i) /\ i.secret[k] = None
        BY IdleIsCall
      <3> HIDE DEF i
      <3>3. c.secret = i.secret
        BY <3>2 DEF IsCall
      <3> QED BY <3>1, <3>2, <3>3
    <2>2. q # p => call'[q] = call[q]
      BY <1>0 DEF Starts
    <2> QED BY <2>1, <2>2
  <1>2. CASE EnsureRun(p)
    <2> PICK r : call' = [call EXCEPT ![p] = [Accessed(@) EXCEPT !.run = r]]
      BY <1>2 DEF EnsureRun
    <2> DEFINE a == Accessed(call[p])
               c == [a EXCEPT !.run = r]
    <2>1. \A o \in Callers : call'[o] = IF o = p THEN c ELSE call[o]
      BY <1>0
    <2>2. IsCall(a) /\ a.secret \in {call[p].secret, Idle.secret}
      BY <1>0
    <2> HIDE DEF a
    <2>3. c.secret = a.secret
      BY <2>2 DEF IsCall
    <2> HIDE DEF c
    <2>4. c.secret[k] \in {call[p].secret[k], None}
      <3>1. Idle.secret[k] = None
        BY IdleIsCall
      <3> QED BY <2>2, <2>3, <3>1
    <2> QED BY <2>1, <2>4
  <1>3. CASE OpenFile(p)
    <2>1. call' = [call EXCEPT ![p].open = TRUE]
      BY <1>3 DEF OpenFile
    <2> DEFINE a == call[p]
               c == [a EXCEPT !.open = TRUE]
    <2>2. \A o \in Callers : call'[o] = IF o = p THEN c ELSE call[o]
      BY <1>0, <2>1
    <2>3. IsCall(a) /\ a = call[p]
      BY <1>0
    <2> HIDE DEF a
    <2>4. c.secret = a.secret
      BY <2>3 DEF IsCall
    <2> HIDE DEF c
    <2> QED BY <2>2, <2>3, <2>4
  <1>4. CASE FillFile(p) \/ ReadFile(p)
    <2>1. \/ call' = [call EXCEPT ![p] = Accessed(@)]
          \/ call' = [call EXCEPT ![p] = Idle]
      BY <1>4 DEF FillFile, ReadFile
    <2> QED BY <1>0, <2>1, IdleIsCall
  <1> QED BY <1>1, <1>2, <1>3, <1>4

\* The file of a settled key stays as it is, and nobody gets another key.
KeyIsRead(k) ==
    /\ key'[k] = key[k]
    /\ \A p \in Callers :
         call'[p].secret[k] # call[p].secret[k] => call'[p].secret[k] \in {key[k], None}

LEMMA SettledKeyIsRead ==
    ASSUME KeyInv, [Next]_vars, NEW k \in Lanes, SettledKey(k)
    PROVE  KeyIsRead(k)
  <1>0. /\ call = [q \in Callers |-> call[q]]
        /\ \A q \in Callers : IsCall(call[q])
        /\ key \in [Lanes -> Secrets \cup {None, "empty"}]
        /\ \A q \in Callers : ~Making(q, k)
        /\ key[k] \in Secrets
    BY DEF KeyInv, KeyTypes, SettledKey
  <1>1. ASSUME NEW p \in Callers,
               StartCommand(p) \/ EnsureRun(p) \/ OpenFile(p) \/ FillFile(p) \/ ReadFile(p)
        PROVE  KeyIsRead(k)
    <2>1. UNCHANGED key
      BY <1>1 DEF StartCommand, EnsureRun, OpenFile, FillFile, ReadFile
    <2> QED BY <1>1, <2>1, SecretsStay DEF KeyIsRead
  <1>2. ASSUME NEW p \in Callers, ReadKey(p) PROVE KeyIsRead(k)
    <2>1. UNCHANGED key
      BY <1>2 DEF ReadKey
    <2>2. PICK j \in Lanes :
             IF Parsed(j) THEN call' = [call EXCEPT ![p] = WithKey(@, j, key[j])]
                          ELSE call' = [call EXCEPT ![p].open = TRUE]
      BY <1>2 DEF ReadKey
    <2>3. CASE Parsed(j)
      <3> DEFINE d == WithKey(call[p], j, key[j])
      <3>1. d.secret[j] = key[j] /\ \A i \in Lanes \ {j} : d.secret[i] \in {call[p].secret[i], None}
        BY <1>0, <2>3, TakesKey DEF Parsed
      <3>2. call' = [call EXCEPT ![p] = d]
        BY <2>2, <2>3
      <3> HIDE DEF d
      <3>3. \A q \in Callers : call'[q] = IF q = p THEN d ELSE call[q]
        BY <1>0, <3>2
      <3> QED BY <2>1, <3>1, <3>3 DEF KeyIsRead
    <2>4. CASE ~Parsed(j)
      <3> DEFINE a == call[p]
                 c == [a EXCEPT !.open = TRUE]
      <3>1. \A q \in Callers : call'[q] = IF q = p THEN c ELSE call[q]
        BY <1>0, <2>2, <2>4
      <3>2. IsCall(a) /\ a = call[p]
        BY <1>0
      <3> HIDE DEF a
      <3>3. c.secret = a.secret
        BY <3>2 DEF IsCall
      <3> HIDE DEF c
      <3> QED BY <2>1, <3>1, <3>2, <3>3 DEF KeyIsRead
    <2> QED BY <2>3, <2>4
  <1>3. ASSUME NEW p \in Callers, OpenKey(p) PROVE KeyIsRead(k)
    <2>1. PICK j \in Lanes : Making(p, j) /\ key' = [key EXCEPT ![j] = "empty"] /\ UNCHANGED call
      BY <1>3 DEF OpenKey
    <2>2. j # k
      BY <1>0, <2>1
    <2> QED BY <1>0, <2>1, <2>2 DEF KeyIsRead
  <1>4. ASSUME NEW p \in Callers, FillKey(p) PROVE KeyIsRead(k)
    <2>1. PICK j \in Lanes, s \in Fresh :
             /\ Making(p, j)
             /\ key' = [key EXCEPT ![j] = s]
             /\ call' = [call EXCEPT ![p] = WithKey(@, j, s)]
      BY <1>4 DEF FillKey
    <2> DEFINE d == WithKey(call[p], j, s)
    <2>2. \A i \in Lanes \ {j} : d.secret[i] \in {call[p].secret[i], None}
      BY <1>0, TakesKey DEF Fresh
    <2>3. call' = [call EXCEPT ![p] = d]
      BY <2>1
    <2> HIDE DEF d
    <2>4. \A q \in Callers : call'[q] = IF q = p THEN d ELSE call[q]
      BY <1>0, <2>3
    <2>5. j # k /\ key'[k] = key[k]
      BY <1>0, <2>1
    <2> QED BY <2>2, <2>4, <2>5 DEF KeyIsRead
  <1>5. CASE Crash
    <2>1. UNCHANGED key /\ \A q \in Callers : call'[q] = Idle \/ call'[q] = call[q]
      BY <1>5 DEF Crash
    <2> QED BY <2>1, IdleIsCall DEF KeyIsRead
  <1>6. CASE UNCHANGED vars
    BY <1>6 DEF vars, KeyIsRead
  <1> QED BY <1>1, <1>2, <1>3, <1>4, <1>5, <1>6 DEF Next, Step

\* The process that takes a step is not left making a key that it could read.
LEMMA MakerAfter ==
    ASSUME KeyInv, NEW p \in Callers, Step(p), NEW k \in Lanes, SettledKey(k)
    PROVE  ~Making(p, k)'
  <1>0. /\ call = [o \in Callers |-> call[o]]
        /\ IsCall(call[p])
        /\ ~Making(p, k)
        /\ key[k] \in Secrets
        /\ key \in [Lanes -> Secrets \cup {None, "empty"}]
    BY DEF KeyInv, KeyTypes, SettledKey
  <1> DEFINE a == Accessed(call[p])
  <1>1. IsCall(a) /\ ~a.open
    BY <1>0, AccessedIsCall
  <1>2. CASE StartCommand(p)
    <2> PICK script, r : Starts(p, script, r)
      BY <1>2 DEF StartCommand
    <2> DEFINE i == Idle
               c == [i EXCEPT !.todo = script, !.run = r]
    <2>1. call'[p] = c
      BY <1>0 DEF Starts
    <2>2. IsCall(i) /\ ~i.open
      BY IdleIsCall
    <2> HIDE DEF i
    <2>3. ~c.open
      BY <2>2 DEF IsCall
    <2> QED BY <2>1, <2>3 DEF Making
  <1>3. CASE EnsureRun(p)
    <2> PICK r : call' = [call EXCEPT ![p] = [Accessed(@) EXCEPT !.run = r]]
      BY <1>3 DEF EnsureRun
    <2>1. call'[p] = [a EXCEPT !.run = r]
      BY <1>0
    <2> HIDE DEF a
    <2> QED BY <1>1, <2>1 DEF IsCall, Making
  <1>4. CASE FillFile(p) \/ ReadFile(p)
    <2>1. call'[p] = a \/ call'[p] = Idle
      BY <1>0, <1>4 DEF FillFile, ReadFile
    <2> QED BY <1>1, <2>1, IdleIsCall DEF Making
  <1>5. CASE OpenFile(p)
    <2> PICK f \in Files : At(p, Write(f)) /\ call' = [call EXCEPT ![p].open = TRUE]
      BY <1>5 DEF OpenFile
    <2>1. call'[p].todo = call[p].todo
      <3> DEFINE c == call[p]
      <3>1. IsCall(c) /\ call'[p] = [c EXCEPT !.open = TRUE] /\ c = call[p]
        BY <1>0
      <3> HIDE DEF c
      <3> QED BY <3>1 DEF IsCall
    <2>2. Load(k) # Write(f)
      BY DEF Load, Write
    <2> QED BY <2>1, <2>2 DEF Making, At
  <1>6. CASE ReadKey(p)
    <2> PICK j \in Lanes :
           /\ At(p, Load(j))
           /\ IF Parsed(j) THEN call' = [call EXCEPT ![p] = WithKey(@, j, key[j])]
                           ELSE call' = [call EXCEPT ![p].open = TRUE]
      BY <1>6 DEF ReadKey
    <2>1. CASE Parsed(j)
      <3> DEFINE d == WithKey(call[p], j, key[j])
      <3>1. ~d.open
        BY <1>0, <2>1, TakesKey DEF Parsed
      <3>2. call'[p] = d
        BY <1>0, <2>1
      <3> HIDE DEF d
      <3> QED BY <3>1, <3>2 DEF Making
    <2>2. CASE ~Parsed(j)
      <3>1. j # k
        BY <1>0, <2>2 DEF Parsed
      <3>2. call'[p].todo = call[p].todo
        <4> DEFINE c == call[p]
        <4>1. IsCall(c) /\ call'[p] = [c EXCEPT !.open = TRUE] /\ c = call[p]
          BY <1>0, <2>2
        <4> HIDE DEF c
        <4> QED BY <4>1 DEF IsCall
      <3>3. ~At(p, Load(k))
        BY <3>1, OneLane
      <3> QED BY <3>2, <3>3 DEF Making, At
    <2> QED BY <2>1, <2>2
  <1>7. CASE OpenKey(p)
    BY <1>0, <1>7 DEF OpenKey, Making, At
  <1>8. CASE FillKey(p)
    <2> PICK j \in Lanes, s \in Fresh : call' = [call EXCEPT ![p] = WithKey(@, j, s)]
      BY <1>8 DEF FillKey
    <2> DEFINE d == WithKey(call[p], j, s)
    <2>1. ~d.open
      BY <1>0, TakesKey DEF Fresh
    <2>2. call'[p] = d
      BY <1>0
    <2> HIDE DEF d
    <2> QED BY <2>1, <2>2 DEF Making
  <1> QED BY <1>2, <1>3, <1>4, <1>5, <1>6, <1>7, <1>8 DEF Step

\* Nobody sets out to make a key that is settled.
LEMMA SettledKeyIsNotMade ==
    ASSUME KeyInv, [Next]_vars, NEW k \in Lanes, SettledKey(k), NEW q \in Callers
    PROVE  ~Making(q, k)'
  <1>0. /\ call = [o \in Callers |-> call[o]]
        /\ \A o \in Callers : IsCall(call[o])
        /\ \A o \in Callers : ~Making(o, k)
        /\ key[k] \in Secrets
    BY DEF KeyInv, KeyTypes, SettledKey
  <1>1. ASSUME NEW p \in Callers, Step(p) PROVE ~Making(q, k)'
    <2>1. q # p => call'[q] = call[q]
      BY <1>0, <1>1 DEF Step, StartCommand, Starts, EnsureRun, OpenFile, FillFile, ReadFile,
                        ReadKey, OpenKey, FillKey
    <2>2. CASE q # p
      BY <1>0, <2>1, <2>2 DEF Making, At
    <2>3. CASE q = p
      BY <1>1, <2>3, MakerAfter DEF Making
    <2> QED BY <2>2, <2>3
  <1>2. CASE Crash
    <2>1. call'[q] = Idle \/ call'[q] = call[q]
      BY <1>2 DEF Crash
    <2> QED BY <1>0, <2>1, IdleIsCall DEF Making, At
  <1>3. CASE UNCHANGED vars
    BY <1>0, <1>3 DEF vars, Making, At
  <1> QED BY <1>1, <1>2, <1>3 DEF Next

LEMMA SettledKeysStay == KeyInv /\ [Next]_vars => \A k \in Lanes : KeyStays(k)
  <1> SUFFICES ASSUME KeyInv, [Next]_vars, NEW k \in Lanes, SettledKey(k) PROVE KeyStays(k)
    BY DEF KeyStays
  <1>1. KeyIsRead(k) /\ \A q \in Callers : ~Making(q, k)'
    BY SettledKeyIsRead, SettledKeyIsNotMade
  <1>2. SettledKey(k)'
    BY <1>1 DEF KeyIsRead, SettledKey
  <1> QED BY <1>1, <1>2 DEF KeyStays, KeyIsRead

\* Once a key is on file and nobody is making another, nobody ever sets out to,
\* the file stays as it is, and every later command gets that key.
THEOREM SettledKeysAreKept == Spec => KeysAreKept
  <1>1. KeyInv /\ [Next]_vars => [\A k \in Lanes : KeyStays(k)]_vars
    BY SettledKeysStay
  <1> QED BY <1>1, InitKeyInv, KeyInvKept, PTL DEF Spec, KeysAreKept

-----------------------------------------------------------------------------
(* The directories of runs.                                                *)

\* Everything that a preparation writes before the manifest is there.
Complete(r) == \A f \in Files \ {"manifest"} : text[r][f] = "whole"

\* What a command does once the files of its run are there.
LaterAccess ==
    {Read(f) : f \in Files} \cup {Load(k) : k \in Lanes} \cup {Write("manifest")}

\* A command that is done, is about to read the manifest or works on a complete run
Follows(c) ==
    /\ c.todo \in Seq(LaterAccess)
    /\ c.todo # <<>> => c.run \in dirs /\ (c.todo[1] = Read("manifest") \/ Complete(c.run))

Access == LaterAccess \cup {MakeRun} \cup {Write(f) : f \in Files}

\* The rest of a preparation from its k-th access to its last but one, and what comes after it.
Preparation(t, k) ==
    /\ t \in Seq(Access) /\ Len(t) > 6 - k
    /\ \A i \in 1..Len(t) : IF i =< 6 - k THEN t[i] = Prepare[k + i - 1] ELSE t[i] \in LaterAccess

\* What a preparation at its k-th access has written; the last but one is of the policy artifact.
Laid(r, k, opened) ==
    /\ text[r]["manifest"] = "none"
    /\ \A j \in 2..5, f \in Files :
         Prepare[j] = Write(f) =>
           text[r][f] = IF j < k THEN "whole" ELSE IF j = k /\ opened THEN "empty" ELSE "none"

PreparesAt(c, k) ==
    c.run \in dirs /\ Preparation(c.todo, k) /\ Laid(c.run, k, c.open)

Prepares(c) == \E k \in 2..5 : PreparesAt(c, k)

Commands ==
    \A p \in Callers :
      \/ Follows(call[p])
      \/ Preparation(call[p].todo, 1) /\ ~call[p].open
      \/ Prepares(call[p])

\* Nobody prepares the run of another.
OnePreparer ==
    \A p, q \in Callers :
      Prepares(call[p]) /\ Prepares(call[q]) /\ RunOf(p) = RunOf(q) => p = q

\* A manifest is begun in a complete run only.
ManifestIsLast == \A r \in Runs : text[r]["manifest"] # "none" => Complete(r)

NewRunsAreEmpty == \A r \in Runs \ dirs, f \in Files : text[r][f] = "none"

DirTypes ==
    /\ dirs \subseteq Runs
    /\ \E n \in Nat : \A r \in dirs : r =< n
    /\ text \in [Runs -> [Files -> Texts]]

DirInv == DirTypes /\ NewRunsAreEmpty /\ ManifestIsLast /\ OnePreparer /\ Commands

-----------------------------------------------------------------------------
(* Commands as sequences of accesses.                                      *)

LEMMA AccessesDiffer ==
    /\ \A f, g \in Files : (Write(f) = Write(g) \/ Read(f) = Read(g)) => f = g
    /\ \A f \in Files : /\ Write(f) # MakeRun /\ Read(f) # MakeRun
                        /\ \A g \in Files : Write(f) # Read(g)
                        /\ \A k \in Lanes : Write(f) # Load(k) /\ Read(f) # Load(k)
                        /\ (Write(f) \in LaterAccess => f = "manifest")
    /\ \A k \in Lanes : Load(k) # MakeRun
    /\ MakeRun \notin LaterAccess
  BY DEF Write, Read, Load, MakeRun, LaterAccess

\* The accesses of a preparation but the first and the last are writes of files
\* that no other command writes.
LEMMA PrepareIs ==
    /\ Prepare \in Seq(Access) /\ Len(Prepare) = 6
    /\ Prepare[1] = MakeRun /\ Prepare[2] = Write("workflow") /\ Prepare[3] = Write("graph")
    /\ Prepare[4] = Write("proof") /\ Prepare[5] = Write("policy") /\ Prepare[6] = Write("manifest")
    /\ \A k \in 2..5 : \E f \in Files \ {"manifest"} : Prepare[k] = Write(f)
    /\ \A f \in Files \ {"manifest"} : \E k \in 2..5 : Prepare[k] = Write(f)
    /\ \A j, k \in 1..5 : Prepare[j] = Prepare[k] => j = k
    /\ \A k \in 1..5 : Prepare[k] \notin LaterAccess
  <1>1. "workflow" \in Files /\ "graph" \in Files /\ "proof" \in Files /\ "policy" \in Files
        /\ "manifest" \in Files /\ Files = {"workflow", "graph", "proof", "policy", "manifest"}
    BY DEF Files
  <1>2. /\ Len(Prepare) = 6
        /\ Prepare[1] = MakeRun /\ Prepare[2] = Write("workflow") /\ Prepare[3] = Write("graph")
        /\ Prepare[4] = Write("proof") /\ Prepare[5] = Write("policy")
        /\ Prepare[6] = Write("manifest")
    BY DEF Prepare
  <1>3. Prepare \in Seq(Access)
    <2>1. MakeRun \in Access /\ \A f \in Files : Write(f) \in Access
      BY DEF Access
    <2> QED BY <1>1, <2>1 DEF Prepare
  <1>4. 2..5 = {2, 3, 4, 5} /\ 1..5 = {1, 2, 3, 4, 5}
    OBVIOUS
  <1>5. /\ \A k \in 2..5 : \E f \in Files \ {"manifest"} : Prepare[k] = Write(f)
        /\ \A f \in Files \ {"manifest"} : \E k \in 2..5 : Prepare[k] = Write(f)
    BY <1>1, <1>2, <1>4
  <1>6. \A j, k \in 1..5 : Prepare[j] = Prepare[k] => j = k
    BY <1>1, <1>2, <1>4, AccessesDiffer
  <1>7. \A k \in 1..5 : Prepare[k] \notin LaterAccess
    BY <1>1, <1>2, <1>4, AccessesDiffer
  <1> QED BY <1>2, <1>3, <1>5, <1>6, <1>7

\* Commands on a run that there is read its manifest first.
Leads(t) == t \in Seq(LaterAccess) /\ Len(t) > 0 /\ t[1] = Read("manifest")

LEMMA LeadsOn ==
    ASSUME NEW s, Leads(s), NEW t \in Seq(LaterAccess)
    PROVE  Leads(s \o t)
  <1>1. s \in Seq(LaterAccess) /\ Len(s) \in Nat /\ Len(t) \in Nat /\ Len(s) > 0
    BY DEF Leads
  <1>2. s \o t \in Seq(LaterAccess) /\ Len(s \o t) = Len(s) + Len(t)
    BY <1>1, ConcatProperties
  <1>3. (s \o t)[1] = s[1]
    <2>1. 1 \in 1..(Len(s) + Len(t)) /\ 1 =< Len(s)
      BY <1>1
    <2> QED BY <1>1, <2>1, ConcatProperties
  <1> QED BY <1>1, <1>2, <1>3 DEF Leads

LEMMA RecoverLeads == Leads(Recover) /\ Leads(<<Read("manifest")>>)
  <1>1. Read("manifest") \in LaterAccess /\ Read("graph") \in LaterAccess
        /\ Write("manifest") \in LaterAccess
    BY DEF LaterAccess, Files
  <1> QED BY <1>1 DEF Leads, Recover

LEMMA ResumesLead == \A script \in Resumes : Leads(script)
  <1> DEFINE rest == <<Read("graph"), Read("policy"), Load("ordinary"), Load("elevated"),
                       Write("manifest")>>
  <1>1. rest \in Seq(LaterAccess) /\ <<>> \in Seq(LaterAccess)
        /\ <<Read("manifest")>> \in Seq(LaterAccess)
    <2>1. /\ Read("graph") \in LaterAccess /\ Read("policy") \in LaterAccess
          /\ Load("ordinary") \in LaterAccess /\ Load("elevated") \in LaterAccess
          /\ Write("manifest") \in LaterAccess /\ Read("manifest") \in LaterAccess
      BY DEF LaterAccess, Files, Lanes
    <2> QED BY <2>1
  <1> HIDE DEF rest
  <1>2. Leads(Recover \o <<Read("manifest")>>) /\ Leads(<<Read("manifest")>>)
    BY <1>1, RecoverLeads, LeadsOn
  <1>3. ASSUME NEW first \in {<<Read("manifest")>>, Recover \o <<Read("manifest")>>}
        PROVE  Leads(first) /\ Leads(first \o rest)
    <2>1. Leads(first)
      BY <1>2
    <2> QED BY <1>1, <2>1, LeadsOn
  <1> QED BY <1>3 DEF Resumes, rest

LEMMA OthersLead ==
    /\ \A script \in Cancels : Leads(script)
    /\ Leads(Status) /\ Leads(Inspect) /\ Leads(Approve)
  <1>1. \A f \in Files : Read(f) \in LaterAccess
    BY DEF LaterAccess
  <1>2. Write("manifest") \in LaterAccess
    BY DEF LaterAccess
  <1>3. Files = {"workflow", "graph", "proof", "policy", "manifest"}
    BY DEF Files
  <1> QED BY <1>1, <1>2, <1>3 DEF Leads, Cancels, Status, Inspect, Approve

\* A new run is prepared, and then resumed.
LEMMA NewRunPrepares == \A script \in NewRun : Preparation(script, 1)
  <1> SUFFICES ASSUME NEW resume \in Resumes
               PROVE  Preparation(Prepare \o resume, 1)
    BY DEF NewRun
  <1> DEFINE t == Prepare \o resume
  <1>1. resume \in Seq(LaterAccess) /\ LaterAccess \subseteq Access /\ Len(resume) \in Nat
    BY ResumesLead DEF Leads, Access
  <1>2. resume \in Seq(Access)
    BY <1>1
  <1>3. /\ t \in Seq(Access) /\ Len(t) = 6 + Len(resume)
        /\ \A i \in 1..(6 + Len(resume)) : t[i] = IF i =< 6 THEN Prepare[i] ELSE resume[i - 6]
    <2>1. Prepare \in Seq(Access) /\ Len(Prepare) = 6
      BY PrepareIs
    <2>2. /\ t \in Seq(Access) /\ Len(t) = Len(Prepare) + Len(resume)
          /\ \A i \in 1..(Len(Prepare) + Len(resume)) :
                t[i] = IF i =< Len(Prepare) THEN Prepare[i] ELSE resume[i - Len(Prepare)]
      BY <1>2, <2>1, ConcatProperties
    <2> HIDE DEF t
    <2> QED BY <2>1, <2>2
  <1> HIDE DEF t
  <1>4. ASSUME NEW i \in 1..Len(t), i > 5 PROVE t[i] \in LaterAccess
    <2>1. CASE i = 6
      BY <1>1, <1>3, <2>1, PrepareIs DEF LaterAccess
    <2>2. CASE i # 6
      <3>1. i - 6 \in 1..Len(resume)
        BY <1>1, <1>3, <1>4, <2>2
      <3> QED BY <1>1, <1>3, <1>4, <2>2, <3>1
    <2> QED BY <2>1, <2>2
  <1>5. ASSUME NEW i \in 1..Len(t), i =< 5 PROVE t[i] = Prepare[1 + i - 1]
    BY <1>1, <1>3, <1>5
  <1>6. Len(t) > 6 - 1
    BY <1>1, <1>3
  <1>7. \A i \in 1..Len(t) : IF i =< 6 - 1 THEN t[i] = Prepare[1 + i - 1] ELSE t[i] \in LaterAccess
    BY <1>1, <1>3, <1>4, <1>5
  <1>8. Preparation(t, 1)
    BY <1>3, <1>6, <1>7 DEF Preparation
  <1> QED BY <1>8 DEF t

\* The first access of a preparation says how far it is.
LEMMA PreparationHead ==
    ASSUME NEW k \in 1..5, NEW t, Preparation(t, k)
    PROVE  /\ t \in Seq(Access) /\ t # <<>> /\ Head(t) = Prepare[k] /\ t[1] = Prepare[k]
           /\ t \notin Seq(LaterAccess)
           /\ \A j \in 1..5 : Preparation(t, j) => j = k
  <1>1. t \in Seq(Access) /\ Len(t) \in Nat /\ Len(t) > 1
    BY DEF Preparation
  <1>2. \A j \in 1..5 : Preparation(t, j) => t[1] = Prepare[j]
    <2> TAKE j \in 1..5
    <2> HAVE Preparation(t, j)
    <2>1. 1 \in 1..Len(t) /\ 1 =< 6 - j /\ j + 1 - 1 = j
      BY <1>1
    <2> QED BY <2>1 DEF Preparation
  <1>3. t[1] \notin LaterAccess
    BY <1>2, PrepareIs
  <1>4. t # <<>> /\ Head(t) = t[1]
    BY <1>1
  <1> QED BY <1>1, <1>2, <1>3, <1>4, PrepareIs

\* After an access of a preparation comes the next, or what follows it.
LEMMA PreparationTail ==
    ASSUME NEW k \in 1..5, NEW t, Preparation(t, k)
    PROVE  /\ k < 5 => Preparation(Tail(t), k + 1)
           /\ k = 5 => Tail(t) \in Seq(LaterAccess)
           /\ Tail(t) # <<>> /\ Len(t) > 1
  <1>1. t \in Seq(Access) /\ t # <<>> /\ Len(t) \in Nat /\ Len(t) > 6 - k
    BY PreparationHead DEF Preparation
  <1>2. /\ Tail(t) \in Seq(Access) /\ Len(Tail(t)) = Len(t) - 1
        /\ \A i \in 1..(Len(t) - 1) : Tail(t)[i] = t[i + 1]
    BY <1>1, HeadTailProperties
  <1> DEFINE u == Tail(t)
  <1> HIDE DEF u
  <1>3. ASSUME NEW i \in 1..Len(u)
        PROVE  IF i =< 6 - (k + 1) THEN u[i] = Prepare[(k + 1) + i - 1] ELSE u[i] \in LaterAccess
    <2>1. i + 1 \in 1..Len(t) /\ u[i] = t[i + 1]
      BY <1>1, <1>2 DEF u
    <2>2. IF i + 1 =< 6 - k THEN t[i + 1] = Prepare[k + (i + 1) - 1] ELSE t[i + 1] \in LaterAccess
      BY <2>1 DEF Preparation
    <2>3. (i + 1 =< 6 - k <=> i =< 6 - (k + 1)) /\ k + (i + 1) - 1 = (k + 1) + i - 1
      OBVIOUS
    <2> QED BY <2>1, <2>2, <2>3
  <1>4. u \in Seq(Access) /\ Len(u) = Len(t) - 1
    BY <1>2 DEF u
  <1>5. k < 5 => Preparation(u, k + 1)
    <2>1. Len(u) > 6 - (k + 1)
      BY <1>1, <1>4
    <2> QED BY <1>3, <1>4, <2>1 DEF Preparation
  <1>6. k = 5 => u \in Seq(LaterAccess)
    <2> HAVE k = 5
    <2>1. \A i \in 1..Len(u) : u[i] \in LaterAccess
      BY <1>3, <1>4
    <2>2. Len(u) \in Nat /\ u = [i \in 1..Len(u) |-> u[i]]
      BY <1>4
    <2>3. u \in [1..Len(u) -> LaterAccess]
      BY <2>1, <2>2
    <2>4. Seq(LaterAccess) = UNION {[1..n -> LaterAccess] : n \in Nat}
      BY SeqDef, Zenon
    <2> QED BY <2>2, <2>3, <2>4
  <1>7. u # <<>> /\ Len(t) > 1
    BY <1>1, <1>4
  <1> QED BY <1>5, <1>6, <1>7 DEF u

-----------------------------------------------------------------------------
(* The latest run is one that there is.                                    *)

Below == OpToRel(<, Nat)

LEMMA LeastNumber ==
    ASSUME NEW S \in SUBSET Nat, S # {}
    PROVE  \E i \in S : \A j \in S : i =< j
  <1>1. IsWellFoundedOn(Below, Nat)
    BY NatLessThanWellFounded DEF Below
  <1>2. \A i, j \in Nat : i < j => <<i, j>> \in Below
    BY DEF Below, OpToRel
  <1>3. PICK i \in S : \A j \in S : ~(<<j, i>> \in Below)
    BY <1>1, WFMin
  <1>4. i \in Nat /\ \A j \in S : j \in Nat /\ ~(j < i)
    BY <1>2, <1>3
  <1>5. \A j \in S : i =< j
    BY <1>4
  <1> QED BY <1>5

LEMMA LatestIsThere ==
    ASSUME DirTypes, dirs # {}
    PROVE  LatestRunId \in dirs
  <1> DEFINE bounds == {n \in Nat : \A r \in dirs : r =< n}
  <1>1. dirs \subseteq Nat
    BY DirectoryAssumption DEF DirTypes
  <1>2. bounds \in SUBSET Nat /\ bounds # {}
    BY DEF DirTypes
  <1>3. PICK n \in bounds : \A m \in bounds : n =< m
    BY <1>2, LeastNumber
  <1>4. n \in Nat /\ \A r \in dirs : r \in Nat /\ r =< n
    BY <1>1, <1>3
  <1>5. n \in dirs
    <2> SUFFICES ASSUME n \notin dirs PROVE FALSE
      OBVIOUS
    <2>1. \A r \in dirs : r =< n - 1
      BY <1>4
    <2>2. PICK r : r \in dirs
      OBVIOUS
    <2>3. n - 1 \in Nat
      BY <1>4, <2>1, <2>2
    <2>4. n - 1 \in bounds
      BY <2>1, <2>3
    <2> QED BY <1>3, <1>4, <2>4
  <1>6. \E x \in dirs : \A y \in dirs : x >= y
    BY <1>4, <1>5
  <1> QED BY <1>6 DEF LatestRunId, Max

-----------------------------------------------------------------------------
(* Where a caller is.                                                      *)

\* What is being prepared is not complete, and its manifest is not begun.
LEMMA LaidIsIncomplete ==
    ASSUME NEW r, NEW k \in 2..5, NEW opened \in BOOLEAN, Laid(r, k, opened)
    PROVE  ~Complete(r)
  <1>1. PICK f \in Files \ {"manifest"} : Prepare[k] = Write(f)
    BY PrepareIs
  <1>2. text[r][f] \in {"empty", "none"}
    BY <1>1 DEF Laid
  <1> QED BY <1>2 DEF Complete

LEMMA CallFacts ==
    ASSUME KeyInv, DirInv, NEW p \in Callers
    PROVE  /\ IsCall(call[p]) /\ call = [q \in Callers |-> call[q]] /\ call[p].open \in BOOLEAN
           /\ call[p].todo \in Seq(Access)
  <1>1. IsCall(call[p]) /\ call = [q \in Callers |-> call[q]]
    BY DEF KeyInv, KeyTypes
  <1>2. call[p].todo \in Seq(Access)
    <2>1. CASE Follows(call[p])
      <3>1. call[p].todo \in Seq(LaterAccess) /\ LaterAccess \subseteq Access
        BY <2>1 DEF Follows, Access
      <3> QED BY <3>1, SeqMonotonic
    <2>2. CASE ~Follows(call[p])
      BY <2>2 DEF DirInv, Commands, Prepares, PreparesAt, Preparation
    <2> QED BY <2>1, <2>2
  <1> QED BY <1>1, <1>2 DEF IsCall

\* A caller at an access that is none of a preparation knows its run to be
\* complete, unless it is about to find out.
LEMMA LaterHead ==
    ASSUME KeyInv, DirInv, NEW p \in Callers, NEW access \in LaterAccess, At(p, access)
    PROVE  /\ Follows(call[p]) /\ RunOf(p) \in dirs
           /\ access # Read("manifest") => Complete(RunOf(p))
  <1> DEFINE t == call[p].todo
  <1>1. t # <<>> /\ Head(t) = access
    BY DEF At
  <1>2. ASSUME NEW k \in 1..5, Preparation(t, k) PROVE FALSE
    <2>1. Head(t) = Prepare[k]
      BY <1>2, PreparationHead
    <2> QED BY <1>1, <2>1, PrepareIs
  <1>3. Follows(call[p])
    BY <1>2 DEF DirInv, Commands, Prepares, PreparesAt
  <1>4. t[1] = access
    <2>1. t \in Seq(LaterAccess)
      BY <1>3 DEF Follows
    <2> QED BY <1>1, <2>1
  <1> QED BY <1>1, <1>3, <1>4 DEF Follows, RunOf

\* A caller that writes another file than the manifest prepares its run.
LEMMA PrepareHead ==
    ASSUME KeyInv, DirInv, NEW p \in Callers, NEW f \in Files \ {"manifest"}, At(p, Write(f))
    PROVE  \E k \in 2..5 : PreparesAt(call[p], k) /\ Prepare[k] = Write(f)
  <1> DEFINE t == call[p].todo
  <1>1. t # <<>> /\ Head(t) = Write(f)
    BY DEF At
  <1>2. ~Follows(call[p])
    <2> SUFFICES ASSUME Follows(call[p]) PROVE FALSE
      OBVIOUS
    <2>1. t \in Seq(LaterAccess)
      BY DEF Follows
    <2>2. Head(t) \in LaterAccess
      BY <1>1, <2>1, HeadTailProperties
    <2> QED BY <1>1, <2>2, AccessesDiffer
  <1>3. ~Preparation(t, 1)
    <2> SUFFICES ASSUME Preparation(t, 1) PROVE FALSE
      OBVIOUS
    <2>1. Head(t) = Prepare[1]
      BY PreparationHead
    <2> QED BY <1>1, <2>1, AccessesDiffer, PrepareIs
  <1>4. PICK k \in 2..5 : PreparesAt(call[p], k)
    BY <1>2, <1>3 DEF DirInv, Commands, Prepares
  <1>5. k \in 1..5 /\ Preparation(t, k)
    BY <1>4 DEF PreparesAt
  <1>6. Head(t) = Prepare[k]
    BY <1>5, PreparationHead
  <1> QED BY <1>1, <1>4, <1>6

\* The record of p after an access, as long as something is left to do
LEMMA AccessedFields ==
    ASSUME NEW c, IsCall(c), c.todo \in Seq(Access), c.todo # <<>>
    PROVE  \E d : /\ d = Accessed(c) /\ IsCall(d) /\ d.todo = Tail(c.todo) /\ ~d.open
                  /\ d.todo # <<>> => d.run = c.run
  <1>1. IsCall(Accessed(c)) /\ ~Accessed(c).open
    BY AccessedIsCall
  <1>2. Len(c.todo) \in Nat \ {0} /\ Len(Tail(c.todo)) = Len(c.todo) - 1
        /\ Tail(c.todo) \in Seq(Access)
    BY HeadTailProperties
  <1>3. CASE Len(c.todo) = 1
    <2>1. Tail(c.todo) = <<>>
      <3> DEFINE u == Tail(c.todo)
      <3>1. u \in Seq(Access) /\ Len(u) = 0
        BY <1>2, <1>3
      <3> HIDE DEF u
      <3>2. u = <<>>
        BY <3>1, EmptySeq
      <3> QED BY <3>2 DEF u
    <2>2. Accessed(c) = Idle /\ Idle.todo = <<>>
      BY <1>3 DEF Accessed, Idle
    <2> QED BY <1>1, <2>1, <2>2
  <1>4. CASE Len(c.todo) # 1
    <2>1. Accessed(c) = [c EXCEPT !.todo = Tail(@), !.open = FALSE]
      BY <1>4 DEF Accessed
    <2>2. Accessed(c).todo = Tail(c.todo) /\ Accessed(c).run = c.run
      BY <2>1 DEF IsCall
    <2> QED BY <1>1, <2>2
  <1> QED BY <1>3, <1>4

LEMMA IdleFollows == Follows(Idle)
  BY EmptySeq DEF Follows, Idle

\* On a complete run a caller may go on.
LEMMA FollowsOn ==
    ASSUME NEW c, Follows(c), c.todo # <<>>, Complete(c.run), NEW d, d.todo = Tail(c.todo),
           d.todo # <<>> => d.run = c.run
    PROVE  Follows(d)
  <1>1. c.todo \in Seq(LaterAccess) /\ c.run \in dirs
    BY DEF Follows
  <1>2. Tail(c.todo) \in Seq(LaterAccess)
    BY <1>1, HeadTailProperties
  <1> QED BY <1>1, <1>2 DEF Follows

-----------------------------------------------------------------------------
(* Steps.                                                                  *)

\* The directories stay as they are, and callers that move work on complete runs
\* or start on a new one.
LEMMA QuietKeeps ==
    ASSUME DirInv, UNCHANGED <<dirs, text>>,
           \A q \in Callers : \/ call'[q] = call[q]
                              \/ Follows(call'[q])
                              \/ Preparation(call'[q].todo, 1) /\ ~call'[q].open
    PROVE  DirInv'
  <1>1. DirTypes' /\ NewRunsAreEmpty' /\ ManifestIsLast'
    BY DEF DirInv, DirTypes, NewRunsAreEmpty, ManifestIsLast, Complete
  <1>2. Commands'
    <2>1. ASSUME NEW q \in Callers
          PROVE  \/ Follows(call'[q])
                 \/ Preparation(call'[q].todo, 1) /\ ~call'[q].open
                 \/ Prepares(call'[q])
      BY DEF DirInv, Commands
    <2> QED BY <2>1 DEF Commands, Follows, Complete, Prepares, PreparesAt, Laid
  <1>3. OnePreparer'
    <2>1. ASSUME NEW q \in Callers, Prepares(call[q])'
          PROVE  call'[q] = call[q] /\ Prepares(call[q])
      <3>1. PICK k \in 2..5 : PreparesAt(call'[q], k)
        BY <2>1 DEF Prepares, PreparesAt, Laid
      <3>2. k \in 1..5 /\ 1 \in 1..5 /\ k # 1 /\ Preparation(call'[q].todo, k)
        BY <3>1 DEF PreparesAt
      <3>3. ~Follows(call'[q]) /\ ~Preparation(call'[q].todo, 1)
        BY <3>2, PreparationHead DEF Follows
      <3> QED BY <3>1, <3>3 DEF Prepares
    <2>2. ASSUME NEW p \in Callers, NEW q \in Callers, Prepares(call[p])', Prepares(call[q])',
                 RunOf(p)' = RunOf(q)'
          PROVE  p = q
      <3>1. Prepares(call[p]) /\ Prepares(call[q]) /\ RunOf(p) = RunOf(q)
        BY <2>1, <2>2 DEF RunOf
      <3> QED BY <3>1 DEF DirInv, OnePreparer
    <2> QED BY <2>2 DEF OnePreparer
  <1> QED BY <1>1, <1>2, <1>3 DEF DirInv

\* One caller is at work in the directory of r, which nobody else prepares.
LEMMA OneWorks ==
    ASSUME KeyInv, DirInv, NEW p \in Callers, NEW d, NEW r \in Runs,
           call' = [call EXCEPT ![p] = d], dirs \subseteq dirs',
           DirTypes', NewRunsAreEmpty', ManifestIsLast',
           \A s \in Runs \ {r} : text'[s] = text[s],
           Complete(r) => Complete(r)',
           \A q \in Callers \ {p} : Prepares(call[q]) => RunOf(q) # r,
           Follows(d)' \/ (Prepares(d)' /\ d.run = r)
    PROVE  DirInv'
  <1>1. call'[p] = d /\ \A q \in Callers \ {p} : call'[q] = call[q]
    BY CallFacts
  <1>2. dirs \subseteq Runs /\ \A s \in Runs : Complete(s) => Complete(s)'
    BY DEF DirInv, DirTypes, Complete
  <1>3. ASSUME NEW q \in Callers \ {p}, Follows(call[q]) PROVE Follows(call[q])'
    <2>1. UNCHANGED call[q]
      BY <1>1
    <2> QED BY <1>2, <1>3, <2>1 DEF Follows
  <1>4. ASSUME NEW q \in Callers \ {p}, Prepares(call[q]) PROVE Prepares(call[q])'
    <2>1. UNCHANGED call[q] /\ RunOf(q) # r
      BY <1>1, <1>4
    <2>2. PICK k \in 2..5 : PreparesAt(call[q], k)
      BY <1>4 DEF Prepares
    <2>3. text'[RunOf(q)] = text[RunOf(q)] /\ RunOf(q) \in dirs'
      BY <1>2, <2>1, <2>2 DEF PreparesAt, RunOf
    <2>4. PreparesAt(call[q], k)'
      BY <2>1, <2>2, <2>3 DEF PreparesAt, Laid, RunOf
    <2> QED BY <2>4 DEF Prepares
  <1>5. Commands'
    <2>1. ASSUME NEW q \in Callers
          PROVE  (\/ Follows(call[q])
                  \/ Preparation(call[q].todo, 1) /\ ~call[q].open
                  \/ Prepares(call[q]))'
      <3>1. CASE q = p
        <4>1. UNCHANGED d
          OBVIOUS
        <4> QED BY <1>1, <3>1 DEF Follows, Prepares, PreparesAt
      <3>2. CASE q # p
        BY <1>1, <1>3, <1>4, <3>2 DEF DirInv, Commands
      <3> QED BY <3>1, <3>2
    <2> QED BY <2>1 DEF Commands
  <1>6. ASSUME NEW q \in Callers \ {p}, Prepares(call[q])' PROVE Prepares(call[q]) /\ RunOf(q)' # r
    <2>1. call'[q] = call[q]
      BY <1>1
    <2>2. PICK k \in 2..5 : Preparation(call[q].todo, k)
      BY <1>6, <2>1 DEF Prepares, PreparesAt
    <2>3. k \in 1..5 /\ 1 \in 1..5 /\ k # 1
      OBVIOUS
    <2>4. ~Follows(call[q]) /\ ~Preparation(call[q].todo, 1)
      BY <2>2, <2>3, PreparationHead DEF Follows
    <2>5. Prepares(call[q])
      BY <2>4 DEF DirInv, Commands
    <2> QED BY <2>1, <2>5 DEF RunOf
  <1>7. OnePreparer'
    <2>1. ASSUME Prepares(call[p])' PROVE RunOf(p)' = r
      <3>1. PICK k \in 2..5 : Preparation(d.todo, k)
        BY <1>1, <2>1 DEF Prepares, PreparesAt
      <3>2. k \in 1..5
        OBVIOUS
      <3>3. ~Follows(d)'
        BY <3>1, <3>2, PreparationHead DEF Follows
      <3> QED BY <1>1, <3>3 DEF RunOf
    <2>2. ASSUME NEW q \in Callers, NEW o \in Callers, Prepares(call[q])', Prepares(call[o])',
                 RunOf(q)' = RunOf(o)'
          PROVE  q = o
      <3>1. CASE q = p \/ o = p
        BY <1>6, <2>1, <2>2, <3>1
      <3>2. CASE q # p /\ o # p
        <4>1. Prepares(call[q]) /\ Prepares(call[o]) /\ RunOf(q) = RunOf(o)
          BY <1>1, <1>6, <2>2, <3>2 DEF RunOf
        <4> QED BY <4>1 DEF DirInv, OnePreparer
      <3> QED BY <3>1, <3>2
    <2> QED BY <2>2 DEF OnePreparer
  <1> QED BY <1>5, <1>7 DEF DirInv

LEMMA StartCommandKeeps ==
    ASSUME KeyInv, DirInv, NEW p \in Callers, StartCommand(p)
    PROVE  DirInv'
  <1>1. PICK script, r :
          /\ Starts(p, script, r)
          /\ \/ script \in NewRun
             \/ Leads(script) /\ r \in dirs
    <2>1. CASE \E script \in NewRun : Starts(p, script, None)
      BY <2>1
    <2>2. CASE \E script \in Scripts(p) \ NewRun, r \in dirs : Starts(p, script, r)
      <3>1. PICK script \in Scripts(p) \ NewRun, r \in dirs : Starts(p, script, r)
        BY <2>2
      <3>2. Leads(script)
        BY <3>1, RecoverLeads, ResumesLead, OthersLead
           DEF Scripts, GatewayMethods, CliCommands, PluginTools
      <3> QED BY <3>1, <3>2
    <2>3. CASE dirs # {} /\ \E script \in {Status, Inspect} : Starts(p, script, LatestRunId)
      <3>1. LatestRunId \in dirs
        BY <2>3, LatestIsThere DEF DirInv
      <3> QED BY <2>3, <3>1, OthersLead
    <2> QED BY <2>1, <2>2, <2>3 DEF StartCommand
  <1> DEFINE i == Idle
  <1>2. PICK d : d = [i EXCEPT !.todo = script, !.run = r]
    OBVIOUS
  <1>3. d.todo = script /\ d.run = r /\ ~d.open
    <2>1. IsCall(i) /\ ~i.open
      BY IdleIsCall
    <2> HIDE DEF i
    <2> QED BY <1>2, <2>1 DEF IsCall
  <1>4. call'[p] = d /\ \A q \in Callers \ {p} : call'[q] = call[q]
    BY <1>1, <1>2, CallFacts DEF Starts
  <1>5. Follows(d) \/ (Preparation(d.todo, 1) /\ ~d.open)
    BY <1>1, <1>3, NewRunPrepares DEF Leads, Follows
  <1>6. UNCHANGED <<dirs, text>>
    BY DEF StartCommand
  <1> QED BY <1>4, <1>5, <1>6, QuietKeeps

\* A run that is made is nobody else's, and none of its files are there.
LEMMA EnsureRunKeeps ==
    ASSUME KeyInv, DirInv, NEW p \in Callers, EnsureRun(p)
    PROVE  DirInv'
  <1>1. PICK r \in Runs \ dirs :
          /\ dirs' = dirs \cup {r}
          /\ call' = [call EXCEPT ![p] = [Accessed(@) EXCEPT !.run = r]]
    BY DEF EnsureRun
  <1> DEFINE c == call[p]
  <1>2. UNCHANGED text /\ At(p, MakeRun) /\ c.todo # <<>> /\ Head(c.todo) = MakeRun
    BY DEF EnsureRun, At
  <1>3. IsCall(c) /\ c.todo \in Seq(Access)
    BY CallFacts
  <1>4. Preparation(c.todo, 1)
    <2>1. ~Follows(c)
      <3> SUFFICES ASSUME Follows(c) PROVE FALSE
        OBVIOUS
      <3>1. Head(c.todo) \in LaterAccess
        BY <1>2, HeadTailProperties DEF Follows
      <3> QED BY <1>2, <3>1, AccessesDiffer
    <2>2. ~Prepares(c)
      <3> SUFFICES ASSUME NEW k \in 2..5, Preparation(c.todo, k) PROVE FALSE
        BY DEF Prepares, PreparesAt
      <3>1. k \in 1..5 /\ Head(c.todo) = Prepare[k]
        BY PreparationHead
      <3>2. PICK f \in Files : Prepare[k] = Write(f)
        BY PrepareIs
      <3> QED BY <1>2, <3>1, <3>2, AccessesDiffer
    <2> QED BY <2>1, <2>2 DEF DirInv, Commands
  <1>5. PICK a : a = Accessed(c) /\ IsCall(a) /\ a.todo = Tail(c.todo) /\ ~a.open
    BY <1>2, <1>3, AccessedFields
  <1>6. PICK d : d = [a EXCEPT !.run = r]
    OBVIOUS
  <1>7. d.todo = Tail(c.todo) /\ d.run = r /\ ~d.open
    BY <1>5, <1>6 DEF IsCall
  <1>8. call' = [call EXCEPT ![p] = d]
    BY <1>1, <1>5, <1>6
  <1>9. Preparation(d.todo, 2)
    BY <1>4, <1>7, PreparationTail
  <1>10. DirTypes'
    <2>1. PICK n \in Nat : \A s \in dirs : s =< n
      BY DEF DirInv, DirTypes
    <2>2. r \in Nat /\ \A s \in dirs : s \in Nat
      BY <1>1, DirectoryAssumption DEF DirInv, DirTypes
    <2>3. \E m \in Nat : \A s \in dirs \cup {r} : s =< m
      <3>1. CASE r =< n
        BY <2>1, <3>1
      <3>2. CASE n < r
        <4>1. \A s \in dirs \cup {r} : s =< r
          BY <2>1, <2>2, <3>2
        <4> QED BY <2>2, <4>1
      <3> QED BY <2>1, <2>2, <3>1, <3>2
    <2> QED BY <1>1, <1>2, <2>3 DEF DirInv, DirTypes
  <1>11. NewRunsAreEmpty' /\ ManifestIsLast'
    BY <1>1, <1>2 DEF DirInv, NewRunsAreEmpty, ManifestIsLast, Complete
  <1>12. Laid(r, 2, d.open)'
    <2>1. \A f \in Files : text[r][f] = "none"
      BY <1>1 DEF DirInv, NewRunsAreEmpty
    <2>2. "manifest" \in Files /\ \A j \in 2..5 : ~(j < 2)
      BY DEF Files
    <2> QED BY <1>2, <1>7, <2>1, <2>2 DEF Laid
  <1>13. Prepares(d)' /\ d.run = r
    <2>1. PreparesAt(d, 2)'
      BY <1>1, <1>7, <1>9, <1>12 DEF PreparesAt
    <2> QED BY <1>7, <2>1 DEF Prepares
  <1>14. \A q \in Callers \ {p} : Prepares(call[q]) => RunOf(q) # r
    BY <1>1 DEF Prepares, PreparesAt, RunOf
  <1>15. (Complete(r) => Complete(r)') /\ \A s \in Runs \ {r} : text'[s] = text[s]
    BY <1>2 DEF Complete
  <1> HIDE DEF c
  <1> QED BY <1>1, <1>8, <1>10, <1>11, <1>13, <1>14, <1>15, OneWorks

\* One file of a run is written.
Written(r, f, t) == text' = [text EXCEPT ![r][f] = t]

LEMMA OneFile ==
    ASSUME DirTypes, NEW r \in Runs, NEW f \in Files, NEW t \in Texts, Written(r, f, t)
    PROVE  /\ text' \in [Runs -> [Files -> Texts]] /\ text'[r][f] = t
           /\ \A s \in Runs \ {r} : text'[s] = text[s]
           /\ \A g \in Files \ {f} : text'[r][g] = text[r][g]
  <1>1. PICK row : row = [text[r] EXCEPT ![f] = t]
    OBVIOUS
  <1>2. text \in [Runs -> [Files -> Texts]]
    BY DEF DirTypes
  <1>3. row \in [Files -> Texts] /\ row[f] = t /\ \A g \in Files \ {f} : row[g] = text[r][g]
    BY <1>1, <1>2
  <1>4. text' = [text EXCEPT ![r] = row]
    BY <1>1 DEF Written
  <1> QED BY <1>2, <1>3, <1>4

\* A manifest is written in a complete run, which is complete afterwards.
LEMMA ManifestWritten ==
    ASSUME KeyInv, DirInv, NEW p \in Callers, At(p, Write("manifest")), NEW t \in Texts, NEW d,
           Written(RunOf(p), "manifest", t), UNCHANGED dirs,
           call' = [call EXCEPT ![p] = d], d.todo \in {call[p].todo, Tail(call[p].todo)},
           d.todo # <<>> => d.run = RunOf(p)
    PROVE  DirInv'
  <1>1. Follows(call[p]) /\ RunOf(p) \in dirs /\ Complete(RunOf(p)) /\ call[p].todo # <<>>
    <2>1. Write("manifest") \in LaterAccess /\ Write("manifest") # Read("manifest")
          /\ "manifest" \in Files
      BY AccessesDiffer DEF LaterAccess, Files
    <2> QED BY <2>1, LaterHead DEF At
  <1>2. PICK r \in Runs : r = RunOf(p)
    BY <1>1 DEF DirInv, DirTypes
  <1>3. /\ r \in dirs' /\ r \in dirs /\ Complete(r) /\ Written(r, "manifest", t)
        /\ DirTypes /\ "manifest" \in Files
    BY <1>1, <1>2 DEF DirInv, Files
  <1>4. /\ text' \in [Runs -> [Files -> Texts]] /\ \A s \in Runs \ {r} : text'[s] = text[s]
        /\ \A f \in Files \ {"manifest"} : text'[r][f] = text[r][f]
    BY <1>3, OneFile
  <1>5. Complete(r)' /\ \A s \in Runs \ {r} : Complete(s) => Complete(s)'
    BY <1>3, <1>4 DEF Complete
  <1>6. DirTypes'
    BY <1>4 DEF DirInv, DirTypes
  <1>7. NewRunsAreEmpty'
    BY <1>3, <1>4 DEF DirInv, NewRunsAreEmpty
  <1>8. ManifestIsLast'
    <2>1. ASSUME NEW s \in Runs, text'[s]["manifest"] # "none" PROVE Complete(s)'
      <3>1. CASE s = r
        BY <1>5, <3>1
      <3>2. CASE s # r
        BY <1>4, <1>5, <2>1, <3>2 DEF DirInv, ManifestIsLast
      <3> QED BY <3>1, <3>2
    <2> QED BY <2>1 DEF ManifestIsLast
  <1>9. \A q \in Callers \ {p} : Prepares(call[q]) => RunOf(q) # r
    <2> TAKE q \in Callers \ {p}
    <2> HAVE Prepares(call[q])
    <2>1. PICK k \in 2..5 : Laid(RunOf(q), k, call[q].open)
      BY DEF Prepares, PreparesAt, RunOf
    <2>2. ~Complete(RunOf(q))
      BY <2>1, LaidIsIncomplete, CallFacts
    <2> QED BY <1>3, <2>2
  <1>10. Follows(d)'
    <2>1. call[p].todo \in Seq(LaterAccess) /\ Tail(call[p].todo) \in Seq(LaterAccess)
      BY <1>1, HeadTailProperties DEF Follows
    <2>2. d.todo \in Seq(LaterAccess) /\ (d.todo # <<>> => d.run = r)
      BY <1>2, <2>1
    <2>3. d.todo # <<>> => d.run \in dirs' /\ Complete(d.run)'
      <3> HAVE d.todo # <<>>
      <3>1. d.run = r
        BY <2>2
      <3>2. UNCHANGED d
        OBVIOUS
      <3> QED BY <1>3, <1>5, <3>1, <3>2 DEF Complete
    <2> QED BY <2>2, <2>3 DEF Follows, Complete
  <1> QED BY <1>4, <1>5, <1>6, <1>7, <1>8, <1>9, <1>10, OneWorks

\* What a preparation has laid after it has truncated, or filled, its k-th file
LEMMA LaidOn ==
    ASSUME DirTypes, NEW r \in Runs, NEW k \in 2..5, NEW f \in Files \ {"manifest"},
           Prepare[k] = Write(f), NEW t \in Texts, Written(r, f, t), NEW opened \in BOOLEAN,
           Laid(r, k, opened)
    PROVE  /\ text'[r]["manifest"] = "none"
           /\ t = "empty" => Laid(r, k, TRUE)'
           /\ t = "whole" /\ k < 5 => Laid(r, k + 1, FALSE)'
           /\ t = "whole" /\ k = 5 => Complete(r)'
  <1>1. /\ text'[r][f] = t /\ \A g \in Files \ {f} : text'[r][g] = text[r][g]
        /\ "manifest" \in Files
    BY OneFile DEF Files
  <1>2. text'[r]["manifest"] = "none"
    BY <1>1 DEF Laid
  <1>3. ASSUME NEW j \in 2..5, NEW g \in Files, Prepare[j] = Write(g)
        PROVE  /\ j = k <=> g = f
               /\ text[r][g] = IF j < k THEN "whole" ELSE IF j = k /\ opened THEN "empty" ELSE "none"
    <2>1. j \in 1..5 /\ k \in 1..5
      OBVIOUS
    <2>2. j = k <=> g = f
      BY <1>3, <2>1, PrepareIs, AccessesDiffer
    <2> QED BY <1>3, <2>2 DEF Laid
  <1>4. ASSUME t = "empty" PROVE Laid(r, k, TRUE)'
    <2>1. ASSUME NEW j \in 2..5, NEW g \in Files, Prepare[j] = Write(g)
          PROVE  text'[r][g] = IF j < k THEN "whole" ELSE IF j = k /\ TRUE THEN "empty" ELSE "none"
      BY <1>1, <1>3, <1>4, <2>1
    <2> QED BY <1>2, <2>1 DEF Laid
  <1>5. ASSUME t = "whole", k < 5 PROVE Laid(r, k + 1, FALSE)'
    <2>1. ASSUME NEW j \in 2..5, NEW g \in Files, Prepare[j] = Write(g)
          PROVE  text'[r][g] =
                   IF j < k + 1 THEN "whole" ELSE IF j = k + 1 /\ FALSE THEN "empty" ELSE "none"
      <3>1. j < k + 1 <=> (j < k \/ j = k)
        OBVIOUS
      <3> QED BY <1>1, <1>3, <1>5, <2>1, <3>1
    <2> QED BY <1>2, <2>1 DEF Laid
  <1>6. ASSUME t = "whole", k = 5 PROVE Complete(r)'
    <2>1. ASSUME NEW g \in Files \ {"manifest"} PROVE text'[r][g] = "whole"
      <3>1. PICK j \in 2..5 : Prepare[j] = Write(g)
        BY PrepareIs
      <3>2. j < k \/ j = k
        BY <1>6
      <3> QED BY <1>1, <1>3, <1>6, <3>1, <3>2
    <2> QED BY <2>1 DEF Complete
  <1> QED BY <1>2, <1>4, <1>5, <1>6

\* A file of a preparation is written, in a run that nobody else prepares.
LEMMA PreparationWritten ==
    ASSUME KeyInv, DirInv, NEW p \in Callers, NEW f \in Files \ {"manifest"}, At(p, Write(f)),
           NEW t \in Texts, Written(RunOf(p), f, t), UNCHANGED dirs,
           NEW d, call' = [call EXCEPT ![p] = d], d.todo # <<>> => d.run = RunOf(p),
           \/ t = "empty" /\ d.todo = call[p].todo /\ d.open = TRUE
           \/ t = "whole" /\ d.todo = Tail(call[p].todo) /\ d.open = FALSE
    PROVE  DirInv'
  <1>1. PICK k \in 2..5 : PreparesAt(call[p], k) /\ Prepare[k] = Write(f)
    BY PrepareHead
  <1>2. PICK r, c : r = RunOf(p) /\ c = call[p]
    OBVIOUS
  <1>3. /\ r \in dirs /\ r \in Runs /\ Laid(r, k, c.open) /\ c.open \in BOOLEAN
        /\ Preparation(c.todo, k) /\ Written(r, f, t) /\ DirTypes
        /\ "manifest" \in Files /\ f \in Files
    BY <1>1, <1>2, CallFacts DEF DirInv, DirTypes, PreparesAt, RunOf, Files
  <1>4. /\ text'[r]["manifest"] = "none"
        /\ t = "empty" => Laid(r, k, TRUE)'
        /\ t = "whole" /\ k < 5 => Laid(r, k + 1, FALSE)'
        /\ t = "whole" /\ k = 5 => Complete(r)'
    BY <1>1, <1>3, LaidOn
  <1>5. text' \in [Runs -> [Files -> Texts]] /\ \A s \in Runs \ {r} : text'[s] = text[s]
    BY <1>3, OneFile
  <1>6. DirTypes' /\ NewRunsAreEmpty'
    BY <1>3, <1>5 DEF DirInv, DirTypes, NewRunsAreEmpty
  <1>7. ManifestIsLast'
    <2>1. ASSUME NEW s \in Runs, text'[s]["manifest"] # "none" PROVE Complete(s)'
      <3>1. s # r /\ text'[s] = text[s]
        BY <1>4, <1>5, <2>1
      <3> QED BY <2>1, <3>1 DEF DirInv, ManifestIsLast, Complete
    <2> QED BY <2>1 DEF ManifestIsLast
  <1>8. ~Complete(r)
    BY <1>3, LaidIsIncomplete
  <1>9. \A q \in Callers \ {p} : Prepares(call[q]) => RunOf(q) # r
    BY <1>1, <1>2 DEF DirInv, OnePreparer, Prepares
  <1>10. k \in 1..5 /\ c.todo # <<>> /\ Tail(c.todo) # <<>>
    BY <1>3, PreparationHead, PreparationTail
  <1>11. d.todo # <<>> /\ d.run = r /\ r \in dirs'
    BY <1>2, <1>3, <1>10
  <1>12. UNCHANGED d
    OBVIOUS
  <1>13. Follows(d)' \/ (Prepares(d)' /\ d.run = r)
    <2>1. CASE t = "empty"
      <3>1. PreparesAt(d, k)'
        BY <1>2, <1>3, <1>4, <1>11, <1>12, <2>1 DEF PreparesAt, Laid
      <3> QED BY <1>11, <3>1 DEF Prepares
    <2>2. CASE t = "whole" /\ k < 5
      <3>1. k + 1 \in 2..5 /\ Preparation(d.todo, k + 1)
        BY <1>2, <1>3, <1>10, <2>2, PreparationTail
      <3>2. PreparesAt(d, k + 1)'
        BY <1>4, <1>11, <1>12, <2>2, <3>1 DEF PreparesAt, Laid
      <3> QED BY <1>11, <3>1, <3>2 DEF Prepares
    <2>3. CASE t = "whole" /\ k = 5
      <3>1. d.todo \in Seq(LaterAccess)
        BY <1>2, <1>3, <1>10, <2>3, PreparationTail
      <3> QED BY <1>4, <1>11, <1>12, <2>3, <3>1 DEF Follows, Complete
    <2> QED BY <2>1, <2>2, <2>3
  <1> QED BY <1>3, <1>5, <1>6, <1>7, <1>8, <1>9, <1>13, OneWorks

\* The record of p when it has begun to write
LEMMA OpenedFields ==
    ASSUME NEW c, IsCall(c)
    PROVE  \E d : d = [c EXCEPT !.open = TRUE] /\ d.todo = c.todo /\ d.run = c.run /\ d.open = TRUE
  <1>1. PICK d : d = [c EXCEPT !.open = TRUE]
    OBVIOUS
  <1>2. d = [todo |-> c.todo, run |-> c.run, open |-> TRUE, secret |-> c.secret]
    BY <1>1 DEF IsCall
  <1> QED BY <1>1, <1>2

LEMMA OpenFileKeeps ==
    ASSUME KeyInv, DirInv, NEW p \in Callers, OpenFile(p)
    PROVE  DirInv'
  <1>1. PICK f \in Files : /\ At(p, Write(f)) /\ Written(RunOf(p), f, "empty")
                           /\ call' = [call EXCEPT ![p].open = TRUE] /\ UNCHANGED dirs
    BY DEF OpenFile, Written
  <1>2. PICK c : c = call[p] /\ IsCall(c)
    BY CallFacts
  <1>3. PICK d : d = [c EXCEPT !.open = TRUE] /\ d.todo = c.todo /\ d.run = c.run /\ d.open = TRUE
    BY <1>2, OpenedFields
  <1>4. call' = [call EXCEPT ![p] = d] /\ d.run = RunOf(p) /\ d.todo = call[p].todo
    BY <1>1, <1>2, <1>3 DEF RunOf
  <1>5. "empty" \in Texts
    BY DEF Texts
  <1>6. CASE f = "manifest"
    BY <1>1, <1>4, <1>5, <1>6, ManifestWritten
  <1>7. CASE f # "manifest"
    <2>1. f \in Files \ {"manifest"} /\ d.open = TRUE
      BY <1>3, <1>7
    <2> QED BY <1>1, <1>4, <1>5, <2>1, PreparationWritten
  <1> QED BY <1>6, <1>7

LEMMA FillFileKeeps ==
    ASSUME KeyInv, DirInv, NEW p \in Callers, FillFile(p)
    PROVE  DirInv'
  <1>1. PICK f \in Files, t \in {"whole", "garbled"} :
          /\ At(p, Write(f)) /\ call[p].open /\ Written(RunOf(p), f, t)
          /\ t = "garbled" => text[RunOf(p)][f] # "empty"
          /\ call' = [call EXCEPT ![p] = Accessed(@)] /\ UNCHANGED dirs
    BY DEF FillFile, Written
  <1>2. PICK c : c = call[p] /\ IsCall(c) /\ c.todo \in Seq(Access) /\ c.todo # <<>>
    BY <1>1, CallFacts DEF At
  <1>3. PICK d : /\ d = Accessed(c) /\ IsCall(d) /\ d.todo = Tail(c.todo) /\ ~d.open
                 /\ d.todo # <<>> => d.run = c.run
    BY <1>2, AccessedFields
  <1>4. /\ call' = [call EXCEPT ![p] = d] /\ d.todo = Tail(call[p].todo)
        /\ d.todo # <<>> => d.run = RunOf(p)
    BY <1>1, <1>2, <1>3 DEF RunOf
  <1>5. t \in Texts
    BY DEF Texts
  <1>6. CASE f = "manifest"
    BY <1>1, <1>4, <1>5, <1>6, ManifestWritten
  <1>7. CASE f # "manifest"
    <2>1. f \in Files \ {"manifest"} /\ d.open = FALSE
      BY <1>3, <1>7 DEF IsCall
    <2>2. PICK k \in 2..5 : PreparesAt(call[p], k) /\ Prepare[k] = Write(f)
      BY <1>1, <2>1, PrepareHead
    <2>3. text[RunOf(p)][f] = "empty"
      BY <1>1, <2>1, <2>2 DEF PreparesAt, Laid, RunOf
    <2>4. t = "whole"
      BY <1>1, <2>3
    <2> QED BY <1>1, <1>4, <1>5, <2>1, <2>4, PreparationWritten
  <1> QED BY <1>6, <1>7

\* A command that goes on has found the manifest whole, and its run complete.
LEMMA ReadFileKeeps ==
    ASSUME KeyInv, DirInv, NEW p \in Callers, ReadFile(p)
    PROVE  DirInv'
  <1>1. PICK f \in Files :
          /\ At(p, Read(f)) /\ UNCHANGED <<dirs, text>>
          /\ IF text[RunOf(p)][f] = "whole"
             THEN call' = [call EXCEPT ![p] = Accessed(@)]
             ELSE call' = [call EXCEPT ![p] = Idle]
    BY DEF ReadFile
  <1>2. PICK c : c = call[p] /\ IsCall(c) /\ c.todo \in Seq(Access) /\ c.todo # <<>>
    BY <1>1, CallFacts DEF At
  <1>3. PICK d : /\ d = Accessed(c) /\ IsCall(d) /\ d.todo = Tail(c.todo) /\ ~d.open
                 /\ d.todo # <<>> => d.run = c.run
    BY <1>2, AccessedFields
  <1>4. /\ Follows(c) /\ c.run \in dirs /\ RunOf(p) = c.run
        /\ Read(f) # Read("manifest") => Complete(c.run)
    <2>1. Read(f) \in LaterAccess
      BY DEF LaterAccess
    <2> QED BY <1>1, <1>2, <2>1, LaterHead DEF RunOf
  <1>5. Follows(call'[p]) /\ \A q \in Callers \ {p} : call'[q] = call[q]
    <2>1. CASE text[RunOf(p)][f] = "whole"
      <3>1. Complete(c.run)
        <4>1. CASE f = "manifest"
          BY <1>4, <2>1, <4>1 DEF DirInv, DirTypes, ManifestIsLast
        <4>2. CASE f # "manifest"
          BY <1>4, <4>2, AccessesDiffer DEF Files
        <4> QED BY <4>1, <4>2
      <3>2. Follows(d)
        BY <1>2, <1>3, <1>4, <3>1, FollowsOn
      <3>3. call' = [call EXCEPT ![p] = d]
        BY <1>1, <1>2, <1>3, <2>1
      <3> QED BY <3>2, <3>3, CallFacts
    <2>2. CASE text[RunOf(p)][f] # "whole"
      <3>1. call' = [call EXCEPT ![p] = Idle]
        BY <1>1, <2>2
      <3>2. PICK i : i = Idle
        OBVIOUS
      <3> QED BY <3>1, <3>2, IdleFollows, CallFacts
    <2> QED BY <2>1, <2>2
  <1> QED BY <1>1, <1>5, QuietKeeps

\* A caller at a key has a complete run, whatever becomes of its record.
LEMMA KeyStepKeeps ==
    ASSUME KeyInv, DirInv, NEW p \in Callers, NEW k \in Lanes, At(p, Load(k)),
           UNCHANGED <<dirs, text>>, NEW d, call' = [call EXCEPT ![p] = d],
           d.todo \in {call[p].todo, Tail(call[p].todo)}, d.todo # <<>> => d.run = RunOf(p)
    PROVE  DirInv'
  <1>1. Follows(call[p]) /\ RunOf(p) \in dirs /\ Complete(RunOf(p)) /\ call[p].todo # <<>>
    <2>1. Load(k) \in LaterAccess /\ Load(k) # Read("manifest")
      BY DEF LaterAccess, Load, Read
    <2> QED BY <2>1, LaterHead DEF At
  <1>2. call[p].todo \in Seq(LaterAccess) /\ Tail(call[p].todo) \in Seq(LaterAccess)
    BY <1>1, HeadTailProperties DEF Follows
  <1>3. Follows(d)
    BY <1>1, <1>2 DEF Follows
  <1>4. call'[p] = d /\ \A q \in Callers \ {p} : call'[q] = call[q]
    BY CallFacts
  <1>5. Follows(call'[p])
    BY <1>3, <1>4
  <1> QED BY <1>4, <1>5, QuietKeeps

\* The record of p when it has its key
LEMMA KeyedFields ==
    ASSUME NEW c, IsCall(c), c.todo \in Seq(Access), c.todo # <<>>, NEW k \in Lanes, NEW s
    PROVE  \E d : /\ d = WithKey(c, k, s) /\ d.todo = Tail(c.todo)
                  /\ d.todo # <<>> => d.run = c.run
  <1>1. PICK a : /\ a = Accessed(c) /\ IsCall(a) /\ a.todo = Tail(c.todo)
                 /\ a.todo # <<>> => a.run = c.run
    BY AccessedFields
  <1>2. PICK d : d = [a EXCEPT !.secret[k] = s]
    OBVIOUS
  <1>3. d = WithKey(c, k, s)
    BY <1>1, <1>2 DEF WithKey
  <1>4. d.todo = a.todo /\ d.run = a.run
    BY <1>1, <1>2 DEF IsCall
  <1> QED BY <1>1, <1>3, <1>4

LEMMA ReadKeyKeeps ==
    ASSUME KeyInv, DirInv, NEW p \in Callers, ReadKey(p)
    PROVE  DirInv'
  <1>1. PICK k \in Lanes :
          /\ At(p, Load(k)) /\ UNCHANGED <<dirs, text>>
          /\ IF Parsed(k)
             THEN call' = [call EXCEPT ![p] = WithKey(@, k, key[k])]
             ELSE call' = [call EXCEPT ![p].open = TRUE]
    BY DEF ReadKey
  <1>2. PICK c : c = call[p] /\ IsCall(c) /\ c.todo \in Seq(Access) /\ c.todo # <<>>
    BY <1>1, CallFacts DEF At
  <1>3. CASE Parsed(k)
    <2>1. PICK s : s = key[k]
      OBVIOUS
    <2>2. PICK d : /\ d = WithKey(c, k, s) /\ d.todo = Tail(c.todo)
                   /\ d.todo # <<>> => d.run = c.run
      BY <1>2, KeyedFields
    <2>3. /\ call' = [call EXCEPT ![p] = d] /\ d.todo = Tail(call[p].todo)
          /\ d.todo # <<>> => d.run = RunOf(p)
      BY <1>1, <1>2, <1>3, <2>1, <2>2 DEF RunOf
    <2> QED BY <1>1, <2>3, KeyStepKeeps
  <1>4. CASE ~Parsed(k)
    <2>1. PICK d : d = [c EXCEPT !.open = TRUE] /\ d.todo = c.todo /\ d.run = c.run
      BY <1>2, OpenedFields
    <2>2. call' = [call EXCEPT ![p] = d] /\ d.todo = call[p].todo /\ d.run = RunOf(p)
      BY <1>1, <1>2, <1>4, <2>1 DEF RunOf
    <2> QED BY <1>1, <2>2, KeyStepKeeps
  <1> QED BY <1>3, <1>4

LEMMA FillKeyKeeps ==
    ASSUME KeyInv, DirInv, NEW p \in Callers, FillKey(p)
    PROVE  DirInv'
  <1>1. PICK k \in Lanes, s \in Fresh :
          /\ At(p, Load(k)) /\ UNCHANGED <<dirs, text>>
          /\ call' = [call EXCEPT ![p] = WithKey(@, k, s)]
    BY DEF FillKey, Making
  <1>2. PICK c : c = call[p] /\ IsCall(c) /\ c.todo \in Seq(Access) /\ c.todo # <<>>
    BY <1>1, CallFacts DEF At
  <1>3. PICK d : /\ d = WithKey(c, k, s) /\ d.todo = Tail(c.todo)
                 /\ d.todo # <<>> => d.run = c.run
    BY <1>2, KeyedFields
  <1>4. /\ call' = [call EXCEPT ![p] = d] /\ d.todo = Tail(call[p].todo)
        /\ d.todo # <<>> => d.run = RunOf(p)
    BY <1>1, <1>2, <1>3 DEF RunOf
  <1> QED BY <1>1, <1>4, KeyStepKeeps

\* What a killed command has laid stays as it is, and nobody goes on with it.
LEMMA CrashKeeps ==
    ASSUME KeyInv, DirInv, Crash
    PROVE  DirInv'
  <1>1. PICK dead \in {{p} : p \in Cli} \cup {Plugin} :
          call' = [p \in Callers |-> IF p \in dead THEN Idle ELSE call[p]]
    BY DEF Crash
  <1>2. UNCHANGED <<dirs, text>>
    BY DEF Crash
  <1>3. \A q \in Callers : call'[q] = call[q] \/ call'[q] = Idle
    BY <1>1
  <1>4. \A q \in Callers : call'[q] = call[q] \/ Follows(call'[q])
    <2> PICK i : i = Idle
      OBVIOUS
    <2> QED BY <1>3, IdleFollows
  <1> QED BY <1>2, <1>4, QuietKeeps

LEMMA InitDirInv == Init => DirInv
  <1> SUFFICES ASSUME Init PROVE DirInv
    OBVIOUS
  <1>1. dirs = {} /\ text = [r \in Runs |-> [f \in Files |-> "none"]]
        /\ "none" \in Texts /\ "manifest" \in Files
    BY DEF Init, Texts, Files
  <1>2. DirTypes
    <2>1. 0 \in Nat /\ \A r \in dirs : r =< 0
      BY <1>1
    <2> QED BY <1>1, <2>1 DEF DirTypes
  <1>3. NewRunsAreEmpty /\ ManifestIsLast
    BY <1>1 DEF NewRunsAreEmpty, ManifestIsLast
  <1>4. Commands
    <2> PICK i : i = Idle
      OBVIOUS
    <2>1. \A q \in Callers : call[q] = i
      BY DEF Init
    <2> QED BY <2>1, IdleFollows DEF Commands
  <1>5. OnePreparer
    BY <1>1 DEF OnePreparer, Prepares, PreparesAt
  <1> QED BY <1>2, <1>3, <1>4, <1>5 DEF DirInv

LEMMA DirInvKept == KeyInv /\ DirInv /\ [Next]_vars => DirInv'
  <1> SUFFICES ASSUME KeyInv, DirInv, [Next]_vars PROVE DirInv'
    OBVIOUS
  <1>1. ASSUME NEW p \in Callers,
               StartCommand(p) \/ EnsureRun(p) \/ OpenFile(p) \/ FillFile(p) \/ ReadFile(p)
        PROVE  DirInv'
    BY <1>1, StartCommandKeeps, EnsureRunKeeps, OpenFileKeeps, FillFileKeeps, ReadFileKeeps
  <1>2. ASSUME NEW p \in Callers, ReadKey(p) \/ FillKey(p) PROVE DirInv'
    BY <1>2, ReadKeyKeeps, FillKeyKeeps
  <1>3. ASSUME UNCHANGED <<dirs, text, call>> PROVE DirInv'
    BY <1>3, QuietKeeps
  <1>4. CASE Crash
    BY <1>4, CrashKeeps
  <1>5. ASSUME NEW p \in Callers, OpenKey(p) PROVE DirInv'
    BY <1>3, <1>5 DEF OpenKey
  <1>6. CASE UNCHANGED vars
    BY <1>3, <1>6 DEF vars
  <1> QED BY <1>1, <1>2, <1>4, <1>5, <1>6 DEF Next, Step

\* What the directories of runs are like at any time, with any number of
\* callers: preparations write in order into directories of their own, and
\* everybody else works on complete runs.
THEOREM DirectoryInvariant == Spec => [](KeyInv /\ DirInv)
  <1>1. Init => KeyInv /\ DirInv
    BY InitKeyInv, InitDirInv
  <1>2. KeyInv /\ DirInv /\ [Next]_vars => KeyInv' /\ DirInv'
    BY KeyInvKept, DirInvKept
  <1> QED BY <1>1, <1>2, PTL DEF Spec

\* A command that reads the graph, the proof bundle or the policy artifact of a
\* run finds it whole, for any number of commands that prepare, rewrite and are
\* killed meanwhile.
THEOREM OnlyManifestsFail == Spec => []OnlyManifestFails
  <1>1. KeyInv /\ DirInv => OnlyManifestFails
    <2> SUFFICES ASSUME KeyInv, DirInv, NEW p \in Callers, NEW f \in Files \ {"manifest"},
                        At(p, Read(f))
                 PROVE  text[RunOf(p)][f] = "whole"
      BY DEF OnlyManifestFails
    <2>1. Read(f) \in LaterAccess /\ Read(f) # Read("manifest")
      BY AccessesDiffer DEF LaterAccess, Files
    <2> QED BY <2>1, LaterHead DEF Complete
  <1> QED BY <1>1, DirectoryInvariant, PTL
=============================================================================
