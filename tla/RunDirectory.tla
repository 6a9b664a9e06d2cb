---------------------------- MODULE RunDirectory ----------------------------
(***************************************************************************)
(* The directories of runs and the two key files of a ledger, as the       *)
(* commands of several processes create, read and rewrite them.            *)
(*                                                                         *)
(* A command is the sequence of its file accesses.  Files are written as   *)
(* in TornLedger: truncated first, then filled.  prepareRun writes four    *)
(* files that never change again and then the manifest, which every        *)
(* command reads first.  A key file is made by the first command that      *)
(* cannot read it.                                                         *)
(*                                                                         *)
(* The calls of the plugin's process take turns here at every access; the  *)
(* code lets them do so only while a step of a run is carried out.         *)
(***************************************************************************)
EXTENDS Naturals, Sequences, FiniteSetsExt

CONSTANTS
    Runs,     \* run ids, numbered as they sort; which id a run gets is random
    Cli,      \* processes of the command line, one command each at a time
    Plugin,   \* calls that are under way in the process of the plugin
    Secrets,  \* what randomBytes may return; bound: keys on file or in use
    None      \* an absent value

ASSUME DirectoryAssumption ==
    /\ Runs \subseteq Nat
    /\ None \notin Runs \cup Secrets
    /\ "empty" \notin Secrets

Callers == Cli \cup Plugin

VARIABLES
    dirs,    \* the runs that have a directory
    text,    \* run |-> file |-> what is in it
    key,     \* lane |-> what is in its key file: None, "empty" or a secret
    call,    \* caller |-> the command and its local variables
    raced    \* history: the lanes whose key two callers were making at once

vars == <<dirs, text, key, call, raced>>

Files == {"workflow", "graph", "proof", "policy", "manifest"}
Lanes == {"ordinary", "elevated"}
Texts == {"none", "empty", "whole", "garbled"}

Write(f) == <<"write", f>>
Read(f) == <<"read", f>>
Load(k) == <<"load", k>>
MakeRun == <<"make", "run">>

-----------------------------------------------------------------------------
(* The commands.                                                           *)

\* Mutant: the manifest is written before the policy artifact.
PrepareManifestEarly ==
    <<MakeRun, Write("workflow"), Write("graph"), Write("proof"), Write("manifest"), Write("policy")>>

\* prepareRun
Prepare ==
    <<MakeRun, Write("workflow"), Write("graph"), Write("proof"), Write("policy"), Write("manifest")>>

\* recoverRun
Recover == <<Read("manifest"), Read("graph"), Write("manifest")>>

\* resumeWorkflow: a running run is recovered first; one that is cancelled,
\* rejected or quarantined is left alone.
Resumes ==
    LET firsts == {<<Read("manifest")>>, Recover \o <<Read("manifest")>>}
    IN  firsts \cup {first \o <<Read("graph"), Read("policy"), Load("ordinary"), Load("elevated"),
                               Write("manifest")>> : first \in firsts}

\* approveRunStep, and cancelRun, which leaves a run at its end alone.
Approve == <<Read("manifest"), Read("graph"), Read("policy"), Write("manifest")>>
Cancels == {<<Read("manifest")>>, <<Read("manifest"), Write("manifest")>>}

\* getRunStatus and inspectRun
Status == <<Read("manifest")>>
Inspect == <<Read("manifest"), Read("graph"), Read("proof"), Read("policy")>>

NewRun == {Prepare \o resume : resume \in Resumes}

\* The tools of the plugin, its gateway methods, and the command line.
PluginTools == NewRun \cup Cancels \cup {Status, Inspect}
GatewayMethods == PluginTools \cup {Recover}
CliCommands == GatewayMethods \cup Resumes \cup {Approve}

Scripts(p) == IF p \in Plugin THEN GatewayMethods ELSE CliCommands

\* "todo" has the accesses that are left of a command; "open" says that it has
\* truncated the file, or is making the key, of the first of them.
Idle == [todo |-> <<>>, run |-> None, open |-> FALSE, secret |-> [k \in Lanes |-> None]]

Init ==
    /\ dirs = {}
    /\ text = [r \in Runs |-> [f \in Files |-> "none"]]
    /\ key = [k \in Lanes |-> None]
    /\ call = [p \in Callers |-> Idle]
    /\ raced = {}

At(p, access) == call[p].todo # <<>> /\ Head(call[p].todo) = access

Accessed(c) == IF Len(c.todo) = 1 THEN Idle ELSE [c EXCEPT !.todo = Tail(@), !.open = FALSE]

\* latestRunId: run ids are sorted as they are spelled.
LatestRunId == Max(dirs)

Starts(p, script, r) == call' = [call EXCEPT ![p] = [Idle EXCEPT !.todo = script, !.run = r]]

\* getRunStatus and inspectRun take the latest run when they are given no id.
StartCommand(p) ==
    /\ call[p] = Idle
    /\ \/ \E script \in NewRun : Starts(p, script, None)
       \/ \E script \in Scripts(p) \ NewRun, r \in dirs : Starts(p, script, r)
       \/ dirs # {} /\ \E script \in {Status, Inspect} : Starts(p, script, LatestRunId)
    /\ UNCHANGED <<dirs, text, key, raced>>

\* ensureRun, for an id nobody has.
EnsureRun(p) ==
    /\ At(p, MakeRun)
    /\ \E r \in Runs \ dirs :
         /\ dirs' = dirs \cup {r}
         /\ call' = [call EXCEPT ![p] = [Accessed(@) EXCEPT !.run = r]]
    /\ UNCHANGED <<text, key, raced>>

\* The run whose directory p is at work in.
RunOf(p) == call[p].run

\* writeJson up to the write
OpenFile(p) ==
    \E f \in Files :
      /\ At(p, Write(f))
      /\ ~call[p].open
      /\ text' = [text EXCEPT ![RunOf(p)][f] = "empty"]
      /\ call' = [call EXCEPT ![p].open = TRUE]
      /\ UNCHANGED <<dirs, key, raced>>

\* The text lands in an empty file, or over what another command has written.
FillFile(p) ==
    \E f \in Files :
      /\ At(p, Write(f))
      /\ call[p].open
      /\ \E t \in {"whole"} \cup (IF text[RunOf(p)][f] = "empty" THEN {} ELSE {"garbled"}) :
           text' = [text EXCEPT ![RunOf(p)][f] = t]
      /\ call' = [call EXCEPT ![p] = Accessed(@)]
      /\ UNCHANGED <<dirs, key, raced>>

\* readJson; what cannot be parsed ends the command.
ReadFile(p) ==
    \E f \in Files :
      /\ At(p, Read(f))
      /\ IF text[RunOf(p)][f] = "whole"
         THEN call' = [call EXCEPT ![p] = Accessed(@)]
         ELSE call' = [call EXCEPT ![p] = Idle]
      /\ UNCHANGED <<dirs, text, key, raced>>

-----------------------------------------------------------------------------
(* loadKey.                                                                *)

\* Mutant: a key file is never read.
NeverParsed(k) == FALSE

Parsed(k) == key[k] \in Secrets

WithKey(c, k, s) == [Accessed(c) EXCEPT !.secret[k] = s]

Making(p, k) == At(p, Load(k)) /\ call[p].open

ReadKey(p) ==
    \E k \in Lanes :
      /\ At(p, Load(k))
      /\ ~call[p].open
      /\ IF Parsed(k)
         THEN /\ call' = [call EXCEPT ![p] = WithKey(@, k, key[k])]
              /\ UNCHANGED raced
         ELSE /\ call' = [call EXCEPT ![p].open = TRUE]
              /\ raced' = IF \E q \in Callers : Making(q, k) THEN raced \cup {k} ELSE raced
      /\ UNCHANGED <<dirs, text, key>>

\* writeFileSync up to the write
OpenKey(p) ==
    \E k \in Lanes :
      /\ Making(p, k)
      /\ key[k] # "empty"
      /\ key' = [key EXCEPT ![k] = "empty"]
      /\ UNCHANGED <<dirs, text, call, raced>>

\* A key that is neither on file nor in use is as good as one never made.
Fresh == Secrets \ ({key[k] : k \in Lanes} \cup {call[p].secret[k] : p \in Callers, k \in Lanes})

\* Mutant: the new key is not saved if there is a file by now.
FillKeyUnlessThere(p) ==
    \E k \in Lanes, s \in Fresh :
      /\ Making(p, k)
      /\ key' = [key EXCEPT ![k] = IF @ = None THEN s ELSE @]
      /\ call' = [call EXCEPT ![p] = WithKey(@, k, s)]
      /\ UNCHANGED <<dirs, text, raced>>

\* All keys of a lane are spelled with as many characters, so that the last one
\* written is whole.
FillKey(p) ==
    \E k \in Lanes, s \in Fresh :
      /\ Making(p, k)
      /\ key[k] # None
      /\ key' = [key EXCEPT ![k] = s]
      /\ call' = [call EXCEPT ![p] = WithKey(@, k, s)]
      /\ UNCHANGED <<dirs, text, raced>>

-----------------------------------------------------------------------------
\* A process is killed; the plugin's takes all its calls with it.
Crash ==
    /\ \E dead \in {{p} : p \in Cli} \cup {Plugin} :
         /\ \E p \in dead : call[p] # Idle
         /\ call' = [p \in Callers |-> IF p \in dead THEN Idle ELSE call[p]]
    /\ UNCHANGED <<dirs, text, key, raced>>

Step(p) ==
    \/ StartCommand(p) \/ EnsureRun(p) \/ OpenFile(p) \/ FillFile(p) \/ ReadFile(p)
    \/ ReadKey(p) \/ OpenKey(p) \/ FillKey(p)

Next == (\E p \in Callers : Step(p)) \/ Crash

Spec == Init /\ [][Next]_vars

-----------------------------------------------------------------------------
\* A run whose manifest could be read is complete: a command that goes on to its
\* graph, proof bundle or policy artifact finds it, however many commands rewrite
\* the manifest meanwhile and wherever a preparation was killed.
OnlyManifestFails ==
    \A p \in Callers, f \in Files \ {"manifest"} :
      At(p, Read(f)) => text[RunOf(p)][f] = "whole"

\* Nobody is about to replace the key of a lane.
SettledKey(k) == key[k] \in Secrets /\ \A p \in Callers : ~Making(p, k)

\* If the key of lane k is settled before a step, it is after it, it is the same
\* key, and nobody gets another one.
KeyStays(k) ==
    SettledKey(k) =>
      /\ SettledKey(k)'
      /\ key'[k] = key[k]
      /\ \A p \in Callers :
           call'[p].secret[k] # call[p].secret[k] => call'[p].secret[k] \in {key[k], None}

\* Once a key is on file and nobody is making another, nobody ever sets out to,
\* the file stays as it is, and every later command signs with that key.
KeysAreKept == [][\A k \in Lanes : KeyStays(k)]_vars

\* Two commands that hold different keys of a lane were both making it at once:
\* a single first use, killed wherever it may be, leaves nobody with a key that
\* is not on file.
HoldersAgree ==
    \A k \in Lanes \ raced, p \in Callers : call[p].secret[k] \in {None, key[k]}
=============================================================================
