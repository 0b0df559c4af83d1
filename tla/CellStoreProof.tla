---------------------------- MODULE CellStoreProof ----------------------------
(***************************************************************************)
(* No recorded run is ever lost, overwritten or mixed with another, and a   *)
(* campaign that reports success is whole at both locations, for any number *)
(* of cells, runs, crashes of the scripts and repairs by the owner.         *)
(***************************************************************************)
EXTENDS CellStore, FiniteSetTheorems, TLAPS

Mirrors == {"mirror first", "mirror cell", "mirror last"}

\* Where the recorded runs are: each in one place, and a cell has one that is not retired at most.
Places ==
  /\ \A k \in 1 .. runs : \E c \in Cells : k \in Live(c) \cup retired[c]
  /\ \A c \in Cells : Live(c) \cup retired[c] \subseteq 1 .. runs
  /\ \A c \in Cells : \A j, k \in Live(c) : j = k
  /\ \A c \in Cells : published[c] \notin attempts[c]
  /\ \A c, d \in Cells : Live(c) \cap retired[d] = {}
  /\ \A c, d \in Cells : c # d => (Live(c) \cup retired[c]) \cap (Live(d) \cup retired[d]) = {}

\* What run_cell.sh relies on while it runs: prepare found the cell without a run, and the latest run is its attempt.
Running ==
  /\ step = "runner" => published[cell] = 0 /\ attempts[cell] = {}
  /\ step \in {"verdict", "publish"} =>
       published[cell] = 0 /\ attempts[cell] = {runs} /\ runs \in 1 .. MaxRuns
  /\ step = "verdict" => verdict[runs] = "none"
  /\ \A k \in 1 .. MaxRuns : k > runs => verdict[k] = "none"

\* Copying goes on in the mirror steps only; what the last one has left is copied.
Copying ==
  /\ copy \subseteq Cells
  /\ step \notin Mirrors => copy = {}
  /\ step = "mirror last" =>
       /\ mirrored = parity
       /\ \A c \in Published \ copy : mirror[c] = [run |-> published[c], whole |-> TRUE]

IInv == TypeOK /\ Places /\ Running /\ Copying /\ SuccessIsWhole

-----------------------------------------------------------------------------
(* Types *)

LEMMA InitTypeOK == Init => TypeOK
<1> SUFFICES ASSUME Init PROVE TypeOK OBVIOUS
<1> USE StoreAssumption DEF Init
<1>1. /\ runs \in 0 .. MaxRuns
      /\ attempts \in [Cells -> RunSets] /\ retired \in [Cells -> RunSets]
      /\ published \in [Cells -> 0 .. MaxRuns]
      /\ verdict \in [1 .. MaxRuns -> {"none", "valid", "invalid"}]
  BY DEF RunSets
<1>2. mirror \in [Cells -> [run : 0 .. MaxRuns, whole : BOOLEAN]] BY DEF NoCopy
<1>3. parity \in Records /\ mirrored \in Records BY DEF NoRecord, Records
<1>4. code \in 1 .. MaxCode /\ invalid \in 0 .. MaxInvalid /\ exit \in -1 .. 3 OBVIOUS
<1>5. rejected \subseteq {k \in 1 .. runs : verdict[k] = "valid"} OBVIOUS
<1>6. /\ cell \in Cells \cup {None} /\ valid \in BOOLEAN /\ scope \in BOOLEAN /\ todo \subseteq Cells
      /\ \A c \in copy : published[c] # 0
      /\ step \in {"runner", "verdict", "publish", "mirror cell", "mirror groups"} <=> cell # None
  OBVIOUS
<1> QED BY <1>1, <1>2, <1>3, <1>4, <1>5, <1>6 DEF TypeOK

\* The types of what a script's own steps change.
ScriptTypes ==
  /\ step \in {"idle", "runner", "verdict", "publish", "mirror cell", "mirror groups",
               "root first", "mirror first", "next", "root last", "mirror last"}
  /\ cell \in Cells \cup {None} /\ valid \in BOOLEAN /\ scope \in BOOLEAN
  /\ step \in {"runner", "verdict", "publish", "mirror cell", "mirror groups"} <=> cell # None
  /\ todo \subseteq Cells /\ copy \subseteq Cells
  /\ invalid \in 0 .. MaxInvalid
  /\ exit \in -1 .. 3

\* The types of the directories and of the gates.
StoreTypes ==
  /\ runs \in 0 .. MaxRuns
  /\ attempts \in [Cells -> RunSets] /\ retired \in [Cells -> RunSets]
  /\ published \in [Cells -> 0 .. MaxRuns]
  /\ verdict \in [1 .. MaxRuns -> {"none", "valid", "invalid"}]
  /\ mirror \in [Cells -> [run : 0 .. MaxRuns, whole : BOOLEAN]]
  /\ parity \in Records /\ mirrored \in Records
  /\ code \in 1 .. MaxCode
  /\ rejected \subseteq {k \in 1 .. runs : verdict[k] = "valid"}

LEMMA Typed ==
  TypeOK /\ copy \subseteq Cells <=> StoreTypes /\ ScriptTypes /\ \A c \in copy : published[c] # 0
BY DEF TypeOK, StoreTypes, ScriptTypes

LEMMA TypedNext ==
  ASSUME StoreTypes', ScriptTypes', \A c \in copy' : published'[c] # 0
  PROVE  TypeOK'
BY DEF TypeOK, StoreTypes, ScriptTypes

LEMMA EndsTypes ==
  ASSUME ScriptTypes, NEW rc \in -1 .. 3, Ends(rc)
  PROVE  ScriptTypes' /\ copy' = {}
<1>1. /\ step' = "idle" /\ exit' = rc /\ scope' = scope
      /\ cell' = None /\ todo' = {} /\ copy' = {} /\ valid' = FALSE /\ invalid' = 0
  BY DEF Ends
<1>2. MaxInvalid \in Nat BY StoreAssumption
<1>3. 0 \in 0 .. MaxInvalid BY <1>2
<1>4. scope' \in BOOLEAN BY <1>1 DEF ScriptTypes
<1> QED BY <1>1, <1>3, <1>4 DEF ScriptTypes

LEMMA ParityTypes ==
  ASSUME StoreTypes, Parity
  PROVE  parity' \in Records
<1>1. Runs \in [Cells -> 0 .. MaxRuns] BY StoreAssumption DEF Runs, StoreTypes
<1>2. code \in 0 .. MaxCode BY StoreAssumption DEF StoreTypes
<1> QED BY <1>1, <1>2 DEF Parity, StoreTypes, Records

LEMMA NoExit == -1 \in -1 .. 3
OBVIOUS

\* Between scripts: the owner acts, or a script starts or is refused; none of it is a success.
LEMMA StartsTypes ==
  ASSUME ScriptTypes, NEW w \in BOOLEAN, Starts(w), UNCHANGED locals, step' \in {"idle", "root first"}
  PROVE  ScriptTypes' /\ exit' = -1
<1>1. /\ step = "idle" /\ exit' = -1 /\ scope' = w /\ UNCHANGED <<cell, todo, copy, valid, invalid>>
  BY DEF Starts, locals
<1> QED BY <1>1, NoExit DEF ScriptTypes

-----------------------------------------------------------------------------
(* What a step leaves alone *)

LEMMA PlacesKept ==
  ASSUME Places, UNCHANGED <<runs, attempts, published, retired>>
  PROVE  Places'
BY DEF Places, Live

LEMMA StoreKept ==
  ASSUME StoreTypes,
         UNCHANGED <<runs, attempts, published, retired, verdict, mirror, mirrored, parity, code, rejected>>
  PROVE  StoreTypes'
BY DEF StoreTypes

\* While no script runs, nothing is being made or copied.
LEMMA OffDuty ==
  ASSUME Running, UNCHANGED <<runs, verdict>>, step' = "idle", copy' = {}
  PROVE  Running' /\ Copying'
BY DEF Running, Copying, Mirrors

LEMMA NoSuccess ==
  ASSUME step' # "idle" \/ exit' # 0 \/ ~scope'
  PROVE  SuccessIsWhole'
BY DEF SuccessIsWhole

\* The parts of the invariant, put together.
LEMMA Together ==
  ASSUME StoreTypes', ScriptTypes', \A c \in copy' : published'[c] # 0,
         Places', Running', Copying', SuccessIsWhole'
  PROVE  IInv'
BY TypedNext DEF IInv

\* A step that ends the script without success, and leaves the directories alone.
LEMMA EndsInv ==
  ASSUME IInv, NEW rc \in -1 .. 3, rc # 0, Ends(rc), UNCHANGED <<places, copies, parity, gates>>
  PROVE  IInv'
<1>1. StoreTypes /\ ScriptTypes BY Typed DEF IInv, Copying
<1>2. ScriptTypes' /\ copy' = {} BY <1>1, EndsTypes
<1>3. step' = "idle" /\ exit' = rc BY DEF Ends
<1>4. UNCHANGED <<runs, attempts, published, retired, verdict, mirror, mirrored, parity, code, rejected>>
  BY DEF places, copies, gates
<1>5. StoreTypes' BY <1>1, <1>4, StoreKept
<1>6. Places' BY <1>4, PlacesKept DEF IInv
<1>7. Running' /\ Copying' BY <1>2, <1>3, <1>4, OffDuty DEF IInv
<1>8. SuccessIsWhole' BY <1>3, NoSuccess
<1> QED BY <1>2, <1>5, <1>6, <1>7, <1>8, Together

LEMMA TypedNow == IInv => StoreTypes /\ ScriptTypes /\ \A c \in copy : published[c] # 0
BY Typed DEF IInv, Copying

\* Steps of the scripts that leave the directories, the copies and the gates alone, and do not copy.
LEMMA QuietTypes ==
  ASSUME IInv, UNCHANGED <<places, copies, gates>>, parity' \in Records
  PROVE  StoreTypes' /\ Places'
<1>1. UNCHANGED <<runs, attempts, published, retired, verdict, mirror, mirrored, code, rejected>>
  BY DEF places, copies, gates
<1>2. StoreTypes' BY <1>1, TypedNow DEF StoreTypes
<1> QED BY <1>1, <1>2, PlacesKept DEF IInv

-----------------------------------------------------------------------------
(* run_cell.sh *)

LEMMA RunCellAloneInv == IInv /\ RunCellAlone => IInv'
<1> SUFFICES ASSUME IInv, RunCellAlone PROVE IInv' OBVIOUS
<1>1. PICK c \in Cells : IF Refused(c)
                         THEN UNCHANGED <<step, locals>>
                         ELSE step' = "runner" /\ cell' = c /\ UNCHANGED <<todo, copy, valid, invalid>>
  BY DEF RunCellAlone
<1>2. /\ step = "idle" /\ exit' = -1 /\ scope' = FALSE
      /\ UNCHANGED <<runs, attempts, published, retired, verdict, mirror, mirrored, parity, code, rejected>>
      /\ UNCHANGED <<places, copies, gates>> /\ UNCHANGED parity
  BY DEF RunCellAlone, Starts, places, copies, gates
<1>3. StoreTypes /\ ScriptTypes BY TypedNow
<1>4. copy = {} BY <1>2 DEF IInv, Copying, Mirrors
<1>5. parity \in Records BY <1>3 DEF StoreTypes
<1>6. StoreTypes' /\ Places' BY <1>2, <1>5, QuietTypes
<1>7. SuccessIsWhole' BY <1>2, NoSuccess
<1>8. CASE Refused(c)
  <2>1. UNCHANGED <<step, cell, todo, copy, valid, invalid>> BY <1>1, <1>8 DEF locals
  <2>2. ScriptTypes' BY <1>2, <1>3, <2>1, NoExit DEF ScriptTypes
  <2>3. Running' /\ Copying' BY <1>2, <1>4, <2>1, OffDuty DEF IInv
  <2> QED BY <1>4, <1>6, <1>7, <2>1, <2>2, <2>3, Together
<1>9. CASE ~Refused(c)
  <2>1. step' = "runner" /\ cell' = c /\ UNCHANGED <<todo, copy, valid, invalid>> BY <1>1, <1>9
  <2>2. c # None BY StoreAssumption
  <2>3. ScriptTypes' BY <1>2, <1>3, <2>1, <2>2, NoExit DEF ScriptTypes
  <2>4. published[c] = 0 /\ attempts[c] = {} BY <1>9 DEF Refused
  <2>5. Running' BY <1>2, <2>1, <2>4 DEF IInv, Running
  <2>6. Copying' BY <1>4, <2>1 DEF Copying, Mirrors
  <2> QED BY <1>4, <1>6, <1>7, <2>1, <2>3, <2>5, <2>6, Together
<1> QED BY <1>8, <1>9

LEMMA NextCellInv == IInv /\ NextCell => IInv'
<1> SUFFICES ASSUME IInv, NextCell PROVE IInv' OBVIOUS
<1>1. PICK c \in todo : IF Refused(c)
                        THEN Ends(2)
                        ELSE /\ Go("runner")
                             /\ cell' = c /\ todo' = todo \ {c}
                             /\ UNCHANGED <<copy, valid, invalid>>
  BY DEF NextCell
<1>2. /\ step = "next"
      /\ UNCHANGED <<runs, attempts, published, retired, verdict, mirror, mirrored, parity, code, rejected>>
      /\ UNCHANGED <<places, copies, gates>> /\ UNCHANGED parity
  BY DEF NextCell, places, copies, gates
<1>3. StoreTypes /\ ScriptTypes BY TypedNow
<1>4. copy = {} BY <1>2 DEF IInv, Copying, Mirrors
<1>5. parity \in Records BY <1>3 DEF StoreTypes
<1>6. StoreTypes' /\ Places' BY <1>2, <1>5, QuietTypes
<1>7. CASE Refused(c)
  <2>1. Ends(2) BY <1>1, <1>7
  <2>2. 2 \in -1 .. 3 /\ 2 # 0 OBVIOUS
  <2>3. UNCHANGED <<places, copies, parity, gates>> BY <1>2
  <2> QED BY <2>1, <2>2, <2>3, EndsInv
<1>8. CASE ~Refused(c)
  <2>1. step' = "runner" /\ cell' = c /\ todo' = todo \ {c} /\ UNCHANGED <<copy, valid, invalid, scope, exit>>
    BY <1>1, <1>8 DEF Go
  <2>2. c \in Cells /\ c # None BY <1>3, StoreAssumption DEF ScriptTypes
  <2>3. ScriptTypes' BY <1>3, <2>1, <2>2 DEF ScriptTypes
  <2>4. published[c] = 0 /\ attempts[c] = {} BY <1>8 DEF Refused
  <2>5. Running' BY <1>2, <2>1, <2>4 DEF IInv, Running
  <2>6. Copying' BY <1>4, <2>1 DEF Copying, Mirrors
  <2>7. SuccessIsWhole' BY <2>1, NoSuccess
  <2> QED BY <1>4, <1>6, <2>1, <2>3, <2>5, <2>6, <2>7, Together
<1> QED BY <1>7, <1>8

\* A new run is one that no cell holds, and its cell holds no other.
LEMMA RecordedInv == IInv /\ Recorded => IInv'
<1> SUFFICES ASSUME IInv, Recorded PROVE IInv' OBVIOUS
<1>1. /\ step = "runner" /\ runs < MaxRuns /\ runs' = runs + 1
      /\ attempts' = [attempts EXCEPT ![cell] = @ \cup {runs'}]
      /\ step' = "verdict" /\ UNCHANGED <<scope, exit, cell, todo, copy, valid, invalid>>
      /\ UNCHANGED <<published, retired, verdict, mirror, mirrored, parity, code, rejected>>
  BY DEF Recorded, Go, copies, gates, locals
<1>2. StoreTypes /\ ScriptTypes BY TypedNow
<1>3. copy = {} BY <1>1 DEF IInv, Copying, Mirrors
<1>4. cell \in Cells /\ published[cell] = 0 /\ attempts[cell] = {}
  BY <1>1, <1>2 DEF IInv, Running, ScriptTypes
<1>5. runs \in Nat /\ MaxRuns \in Nat /\ runs' \in 1 .. MaxRuns /\ 1 .. runs' = (1 .. runs) \cup {runs'}
      /\ runs' \notin 1 .. runs /\ runs' \in 0 .. MaxRuns
  <2>1. runs \in 0 .. MaxRuns /\ MaxRuns \in Nat BY <1>2, StoreAssumption DEF StoreTypes
  <2> QED BY <1>1, <2>1
<1>6. /\ attempts'[cell] = {runs'}
      /\ \A c \in Cells : c # cell => attempts'[c] = attempts[c]
      /\ attempts' \in [Cells -> RunSets]
  <2>1. attempts \in [Cells -> RunSets] /\ {runs'} \in RunSets BY <1>2, <1>5 DEF StoreTypes, RunSets
  <2> QED BY <1>1, <1>4, <2>1
<1>7. StoreTypes'
  <2>1. rejected \subseteq {k \in 1 .. runs' : verdict[k] = "valid"} BY <1>2, <1>5 DEF StoreTypes
  <2> QED BY <1>1, <1>2, <1>5, <1>6, <2>1 DEF StoreTypes
<1>8. ScriptTypes' BY <1>1, <1>2 DEF ScriptTypes
<1>9. Places'
  <2>1. \A c \in Cells : Live(c)' = IF c = cell THEN {runs'} ELSE Live(c)
    BY <1>1, <1>4, <1>6 DEF Live
  <2>2. Live(cell) = {} BY <1>4 DEF Live
  <2>3. \A c \in Cells : runs' \notin Live(c) /\ runs' \notin retired[c] BY <1>5 DEF IInv, Places
  <2>4. \A k \in 1 .. runs' : \E c \in Cells : k \in Live(c)' \cup retired'[c]
    <3> SUFFICES ASSUME NEW k \in 1 .. runs' PROVE \E c \in Cells : k \in Live(c)' \cup retired'[c] OBVIOUS
    <3>1. CASE k = runs' BY <1>4, <2>1, <3>1
    <3>2. CASE k \in 1 .. runs
      <4>1. PICK c \in Cells : k \in Live(c) \cup retired[c] BY <3>2 DEF IInv, Places
      <4>2. k \in Live(c)' \cup retired'[c] BY <1>1, <2>1, <2>2, <4>1
      <4> QED BY <4>2
    <3> QED BY <1>5, <3>1, <3>2
  <2>5. \A c \in Cells : Live(c)' \cup retired'[c] \subseteq 1 .. runs'
    BY <1>1, <1>5, <2>1 DEF IInv, Places
  <2>6. \A c \in Cells : \A j, k \in Live(c)' : j = k BY <2>1 DEF IInv, Places
  <2>7. \A c \in Cells : published'[c] \notin attempts'[c] BY <1>1, <1>4, <1>5, <1>6 DEF IInv, Places
  <2>8. \A c, d \in Cells : Live(c)' \cap retired'[d] = {} BY <1>1, <2>1, <2>3 DEF IInv, Places
  <2>9. \A c, d \in Cells : c # d => (Live(c)' \cup retired'[c]) \cap (Live(d)' \cup retired'[d]) = {}
    BY <1>1, <2>1, <2>3 DEF IInv, Places
  <2> QED BY <2>4, <2>5, <2>6, <2>7, <2>8, <2>9 DEF Places
<1>10. Running'
  <2>1. \A k \in 1 .. MaxRuns : k > runs' => verdict'[k] = "none" BY <1>1, <1>5 DEF IInv, Running
  <2>2. verdict'[runs'] = "none" BY <1>1, <1>5 DEF IInv, Running
  <2> QED BY <1>1, <1>4, <1>5, <1>6, <2>1, <2>2 DEF Running
<1>11. Copying' BY <1>1, <1>3 DEF Copying, Mirrors
<1>12. SuccessIsWhole' BY <1>1, NoSuccess
<1> QED BY <1>1, <1>3, <1>7, <1>8, <1>9, <1>10, <1>11, <1>12, Together

\* Only a run that has no verdict is judged, so none that was rejected is.
LEMMA JudgeInv == IInv /\ Judge => IInv'
<1> SUFFICES ASSUME IInv, Judge PROVE IInv' OBVIOUS
<1>1. PICK v \in {"none", "valid", "invalid"} :
        verdict' = [verdict EXCEPT ![runs] = v] /\ valid' = (v = "valid")
  BY DEF Judge
<1>2. /\ step = "verdict" /\ step' = "publish" /\ UNCHANGED <<scope, exit, cell, todo, copy, invalid>>
      /\ UNCHANGED <<runs, attempts, published, retired, mirror, mirrored, parity, code, rejected>>
  BY DEF Judge, Go, copies, gates
<1>3. StoreTypes /\ ScriptTypes BY TypedNow
<1>4. copy = {} BY <1>2 DEF IInv, Copying, Mirrors
<1>5. published[cell] = 0 /\ attempts[cell] = {runs} /\ runs \in 1 .. MaxRuns /\ verdict[runs] = "none"
  BY <1>2 DEF IInv, Running
<1>6. /\ verdict' \in [1 .. MaxRuns -> {"none", "valid", "invalid"}]
      /\ \A k \in 1 .. MaxRuns : k # runs => verdict'[k] = verdict[k]
  BY <1>1, <1>3 DEF StoreTypes
<1>7. StoreTypes'
  <2>1. rejected \subseteq {k \in 1 .. runs : verdict[k] = "valid"} BY <1>3 DEF StoreTypes
  <2>2. 1 .. runs \subseteq 1 .. MaxRuns BY <1>5, StoreAssumption
  <2>3. \A k \in rejected : k \in 1 .. runs /\ k # runs /\ verdict[k] = "valid" BY <1>5, <2>1
  <2>4. rejected \subseteq {k \in 1 .. runs : verdict'[k] = "valid"} BY <1>6, <2>2, <2>3
  <2> QED BY <1>2, <1>3, <1>6, <2>4 DEF StoreTypes
<1>8. ScriptTypes' BY <1>1, <1>2, <1>3 DEF ScriptTypes
<1>9. Places' BY <1>2, PlacesKept DEF IInv
<1>10. Running'
  <2>1. \A k \in 1 .. MaxRuns : k > runs => verdict'[k] = "none"
    <3>1. \A k \in 1 .. MaxRuns : k > runs => k # runs BY <1>5
    <3> QED BY <1>6, <3>1 DEF IInv, Running
  <2> QED BY <1>2, <1>5, <2>1 DEF Running
<1>11. Copying' BY <1>2, <1>4 DEF Copying, Mirrors
<1>12. SuccessIsWhole' BY <1>2, NoSuccess
<1> QED BY <1>2, <1>4, <1>7, <1>8, <1>9, <1>10, <1>11, <1>12, Together

\* Publishing, by the script or by hand, moves the run and leaves it the cell's only one.
LEMMA RenamePlaces ==
  ASSUME IInv, NEW c \in Cells, NEW k \in attempts[c], Rename(c, k)
  PROVE  /\ Places'
         /\ attempts' \in [Cells -> RunSets] /\ published' \in [Cells -> 0 .. MaxRuns]
         /\ published'[c] = k /\ published'[c] # 0
         /\ \A d \in Cells : d # c => published'[d] = published[d]
<1>1. /\ published[c] = 0
      /\ published' = [published EXCEPT ![c] = k]
      /\ attempts' = [attempts EXCEPT ![c] = @ \ {k}]
      /\ runs' = runs /\ retired' = retired
  BY DEF Rename
<1>2. attempts \in [Cells -> RunSets] /\ published \in [Cells -> 0 .. MaxRuns]
  BY TypedNow DEF StoreTypes
<1>3. attempts[c] \in RunSets /\ k \in 1 .. MaxRuns BY <1>2 DEF RunSets
<1>4. k # 0 /\ k \in 0 .. MaxRuns BY <1>3, StoreAssumption
<1>5. /\ published'[c] = k /\ attempts'[c] = attempts[c] \ {k}
      /\ \A d \in Cells : d # c => published'[d] = published[d] /\ attempts'[d] = attempts[d]
  BY <1>1, <1>2
<1>6. published' \in [Cells -> 0 .. MaxRuns] BY <1>1, <1>2, <1>4
<1>7. attempts' \in [Cells -> RunSets]
  <2>1. attempts[c] \ {k} \in RunSets BY <1>3 DEF RunSets
  <2> QED BY <1>1, <1>2, <2>1
<1>8. \A d \in Cells : Live(d)' = Live(d)
  <2>1. Live(c)' = (attempts[c] \ {k}) \cup {k} BY <1>4, <1>5 DEF Live
  <2>2. Live(c) = attempts[c] BY <1>1 DEF Live
  <2>3. Live(c)' = Live(c) BY <2>1, <2>2
  <2>4. \A d \in Cells : d # c => Live(d)' = Live(d) BY <1>5 DEF Live
  <2> QED BY <2>3, <2>4
<1>9. \A d \in Cells : published'[d] \notin attempts'[d] BY <1>5 DEF IInv, Places
<1>10. Places' BY <1>1, <1>8, <1>9 DEF IInv, Places
<1> QED BY <1>4, <1>5, <1>6, <1>7, <1>10

LEMMA PublishInv == IInv /\ Publish => IInv'
<1> SUFFICES ASSUME IInv, Publish PROVE IInv' OBVIOUS
<1>1. /\ step = "publish" /\ Rename(cell, runs) /\ step' = "mirror cell" /\ copy' = {cell}
      /\ UNCHANGED <<scope, exit, cell, todo, valid, invalid, mirror, mirrored, parity, code, rejected>>
  BY DEF Publish, Go, copies, gates
<1>2. runs' = runs /\ retired' = retired /\ verdict' = verdict BY <1>1 DEF Rename
<1>3. StoreTypes /\ ScriptTypes BY TypedNow
<1>4. cell \in Cells /\ attempts[cell] = {runs} BY <1>1, <1>3 DEF IInv, Running, ScriptTypes
<1>5. /\ Places' /\ attempts' \in [Cells -> RunSets] /\ published' \in [Cells -> 0 .. MaxRuns]
      /\ published'[cell] # 0
  <2>1. runs \in attempts[cell] BY <1>4
  <2> QED BY <1>1, <1>4, <2>1, RenamePlaces
<1>6. StoreTypes' BY <1>1, <1>2, <1>3, <1>5 DEF StoreTypes
<1>7. ScriptTypes' BY <1>1, <1>3, <1>4 DEF ScriptTypes
<1>8. Running' BY <1>1, <1>2 DEF IInv, Running
<1>9. Copying' BY <1>1, <1>4 DEF Copying, Mirrors
<1>10. SuccessIsWhole' BY <1>1, NoSuccess
<1> QED BY <1>1, <1>5, <1>6, <1>7, <1>8, <1>9, <1>10, Together

-----------------------------------------------------------------------------
(* The second location *)

LEMMA MirrorBeginsInv == ASSUME IInv, NEW c \in Cells, MirrorBegins(c) PROVE IInv'
<1>1. /\ step \in Mirrors /\ c \in copy
      /\ IF Fresh(c)
         THEN mirror' = [mirror EXCEPT ![c] = [run |-> published[c], whole |-> FALSE]] /\ UNCHANGED script
         ELSE Ends(3) /\ UNCHANGED mirror
      /\ UNCHANGED <<runs, attempts, published, retired, verdict, mirrored, parity, code, rejected>>
      /\ UNCHANGED <<places, mirrored, parity, gates>>
  BY DEF MirrorBegins, Mirroring, Mirrors, places, gates
<1>2. StoreTypes /\ ScriptTypes /\ \A d \in copy : published[d] # 0 BY TypedNow
<1>3. CASE Fresh(c)
  <2>1. UNCHANGED <<step, scope, cell, todo, copy, valid, invalid, exit>> BY <1>1, <1>3 DEF script, locals
  <2>2. /\ mirror' \in [Cells -> [run : 0 .. MaxRuns, whole : BOOLEAN]]
        /\ \A d \in Cells : d # c => mirror'[d] = mirror[d]
    <3>1. published[c] \in 0 .. MaxRuns /\ mirror \in [Cells -> [run : 0 .. MaxRuns, whole : BOOLEAN]]
      BY <1>2 DEF StoreTypes
    <3>2. [run |-> published[c], whole |-> FALSE] \in [run : 0 .. MaxRuns, whole : BOOLEAN] BY <3>1
    <3>3. mirror' = [mirror EXCEPT ![c] = [run |-> published[c], whole |-> FALSE]] BY <1>1, <1>3
    <3> QED BY <3>1, <3>2, <3>3
  <2>3. StoreTypes' BY <1>1, <1>2, <2>2 DEF StoreTypes
  <2>4. ScriptTypes' BY <1>2, <2>1 DEF ScriptTypes
  <2>5. Places' BY <1>1, PlacesKept DEF IInv
  <2>6. Running' BY <1>1, <2>1 DEF IInv, Running
  <2>7. Copying'
    <3>1. \A d \in Published \ copy : d \in Cells /\ d # c BY <1>1 DEF Published
    <3> QED BY <1>1, <2>1, <2>2, <3>1 DEF IInv, Copying, Published
  <2>8. SuccessIsWhole' BY <1>1, <2>1, NoSuccess DEF Mirrors
  <2> QED BY <1>1, <1>2, <2>1, <2>3, <2>4, <2>5, <2>6, <2>7, <2>8, Together
<1>4. CASE ~Fresh(c)
  <2>1. Ends(3) /\ UNCHANGED mirror BY <1>1, <1>4
  <2>2. 3 \in -1 .. 3 /\ 3 # 0 OBVIOUS
  <2>3. UNCHANGED <<places, copies, parity, gates>> BY <1>1, <2>1 DEF copies
  <2> QED BY <2>1, <2>2, <2>3, EndsInv
<1> QED BY <1>3, <1>4

LEMMA MirrorEndsInv == ASSUME IInv, NEW c \in Cells, MirrorEnds(c) PROVE IInv'
<1>1. /\ step \in Mirrors /\ c \in copy
      /\ mirror[c].run = published[c]
      /\ mirror' = [mirror EXCEPT ![c].whole = TRUE]
      /\ copy' = copy \ {c}
      /\ UNCHANGED <<step, scope, exit, cell, todo, valid, invalid>>
      /\ UNCHANGED <<runs, attempts, published, retired, verdict, mirrored, parity, code, rejected>>
  BY DEF MirrorEnds, Mirroring, Mirrors, Go, places, gates
<1>2. StoreTypes /\ ScriptTypes /\ \A d \in copy : published[d] # 0 BY TypedNow
<1>3. /\ mirror' \in [Cells -> [run : 0 .. MaxRuns, whole : BOOLEAN]]
      /\ mirror'[c] = [run |-> published[c], whole |-> TRUE]
      /\ \A d \in Cells : d # c => mirror'[d] = mirror[d]
  BY <1>1, <1>2 DEF StoreTypes
<1>4. StoreTypes' BY <1>1, <1>2, <1>3 DEF StoreTypes
<1>5. ScriptTypes' BY <1>1, <1>2 DEF ScriptTypes
<1>6. Places' BY <1>1, PlacesKept DEF IInv
<1>7. Running' BY <1>1 DEF IInv, Running
<1>8. Copying'
  <2>1. \A d \in Published \ copy' : d \in Cells /\ (d = c \/ d \in Published \ copy)
    BY <1>1 DEF Published
  <2> QED BY <1>1, <1>3, <2>1 DEF IInv, Copying, Published
<1>9. SuccessIsWhole' BY <1>1, NoSuccess DEF Mirrors
<1> QED BY <1>1, <1>2, <1>4, <1>5, <1>6, <1>7, <1>8, <1>9, Together

LEMMA CellParityInv == IInv /\ CellParity => IInv'
<1> SUFFICES ASSUME IInv, CellParity PROVE IInv' OBVIOUS
<1>1. /\ step = "mirror cell" /\ copy = {} /\ Parity /\ step' = "mirror groups"
      /\ UNCHANGED <<scope, exit, cell, todo, copy, invalid>>
      /\ UNCHANGED <<places, copies, gates>>
      /\ valid' = (valid /\ (Ready => parity'.rc = 0))
  BY DEF CellParity, Go
<1>2. StoreTypes /\ ScriptTypes BY TypedNow
<1>3. StoreTypes' /\ Places' BY <1>1, <1>2, ParityTypes, QuietTypes
<1>4. valid' \in BOOLEAN BY <1>1
<1>5. ScriptTypes' BY <1>1, <1>2, <1>4 DEF ScriptTypes
<1>6. Running' BY <1>1 DEF IInv, Running, places
<1>7. Copying' BY <1>1 DEF Copying, Mirrors
<1>8. SuccessIsWhole' BY <1>1, NoSuccess
<1> QED BY <1>1, <1>3, <1>5, <1>6, <1>7, <1>8, Together

\* Within run_scope.sh, run_cell.sh ends the script only over --max-invalid, and never with success.
LEMMA CellEndsInv == IInv /\ CellEnds => IInv'
<1> SUFFICES ASSUME IInv, CellEnds PROVE IInv' OBVIOUS
<1> DEFINE n == IF valid THEN invalid ELSE invalid + 1
<1>1. /\ step = "mirror groups" /\ mirrored' = parity
      /\ UNCHANGED <<runs, attempts, published, retired, verdict, mirror, parity, code, rejected>>
      /\ IF ~scope \/ n > MaxInvalid
         THEN Ends(IF valid THEN 0 ELSE 1)
         ELSE Go("next") /\ invalid' = n /\ cell' = None /\ valid' = FALSE /\ UNCHANGED <<todo, copy>>
  BY DEF CellEnds, places, gates
<1>2. StoreTypes /\ ScriptTypes BY TypedNow
<1>3. copy = {} BY <1>1 DEF IInv, Copying, Mirrors
<1>4. StoreTypes' BY <1>1, <1>2 DEF StoreTypes
<1>5. Places' BY <1>1, PlacesKept DEF IInv
<1>6. invalid \in Nat /\ MaxInvalid \in Nat /\ invalid <= MaxInvalid /\ valid \in BOOLEAN /\ scope \in BOOLEAN
  <2>1. invalid \in 0 .. MaxInvalid BY <1>2 DEF ScriptTypes
  <2>2. MaxInvalid \in Nat BY StoreAssumption
  <2>3. invalid \in Nat /\ invalid <= MaxInvalid BY <2>1, <2>2
  <2>4. valid \in BOOLEAN /\ scope \in BOOLEAN BY <1>2 DEF ScriptTypes
  <2> QED BY <2>2, <2>3, <2>4
<1>7. CASE ~scope \/ n > MaxInvalid
  <2>1. PICK rc \in -1 .. 3 : Ends(rc) /\ (scope => rc # 0)
    <3>1. Ends(IF valid THEN 0 ELSE 1) BY <1>1, <1>7
    <3>2. CASE valid
      <4>1. 0 \in -1 .. 3 OBVIOUS
      <4>2. ~scope BY <1>6, <1>7, <3>2
      <4> QED BY <3>1, <3>2, <4>1, <4>2
    <3>3. CASE ~valid
      <4>1. 1 \in -1 .. 3 /\ 1 # 0 OBVIOUS
      <4> QED BY <3>1, <3>3, <4>1
    <3> QED BY <3>2, <3>3
  <2>2. ScriptTypes' /\ copy' = {} BY <1>2, <2>1, EndsTypes
  <2>3. step' = "idle" /\ exit' = rc /\ scope' = scope BY <2>1 DEF Ends
  <2>4. Running' /\ Copying' BY <1>1, <2>2, <2>3, OffDuty DEF IInv
  <2>5. SuccessIsWhole' BY <2>1, <2>3, NoSuccess
  <2> QED BY <1>4, <1>5, <2>2, <2>4, <2>5, Together
<1>8. CASE ~(~scope \/ n > MaxInvalid)
  <2>1. /\ step' = "next" /\ UNCHANGED <<scope, exit, todo, copy>>
        /\ invalid' = n /\ cell' = None /\ valid' = FALSE
    BY <1>1, <1>8 DEF Go
  <2>2. n \in 0 .. MaxInvalid BY <1>6, <1>8
  <2>3. invalid' \in 0 .. MaxInvalid BY <2>1, <2>2
  <2> HIDE DEF n
  <2>4. ScriptTypes' BY <1>2, <2>1, <2>3 DEF ScriptTypes
  <2>5. Running' BY <1>1, <2>1 DEF IInv, Running
  <2>6. Copying' BY <1>3, <2>1 DEF Copying, Mirrors
  <2>7. SuccessIsWhole' BY <2>1, NoSuccess
  <2> QED BY <1>3, <1>4, <1>5, <2>1, <2>4, <2>5, <2>6, <2>7, Together
<1> QED BY <1>7, <1>8

-----------------------------------------------------------------------------
(* run_scope.sh *)

LEMMA RunScopeInv == IInv /\ RunScope => IInv'
<1> SUFFICES ASSUME IInv, RunScope PROVE IInv' OBVIOUS
<1>1. /\ Starts(TRUE) /\ step' = "root first" /\ UNCHANGED locals
      /\ step = "idle" /\ UNCHANGED copy /\ UNCHANGED <<places, copies, gates>> /\ UNCHANGED parity
  BY DEF RunScope, Starts, locals
<1>2. StoreTypes /\ ScriptTypes BY TypedNow
<1>3. copy = {} BY <1>1 DEF IInv, Copying, Mirrors
<1>4. ScriptTypes' BY <1>1, <1>2, StartsTypes
<1>5. parity \in Records BY <1>2 DEF StoreTypes
<1>6. StoreTypes' /\ Places' BY <1>1, <1>5, QuietTypes
<1>7. Running' BY <1>1 DEF IInv, Running, places
<1>8. Copying' BY <1>1, <1>3 DEF Copying, Mirrors
<1>9. SuccessIsWhole' BY <1>1, NoSuccess
<1> QED BY <1>1, <1>3, <1>4, <1>6, <1>7, <1>8, <1>9, Together

\* The bookkeeping is copied before any cell: from here on the copy of the record is that of the last parity.
LEMMA MirrorRootInv == IInv /\ MirrorRoot => IInv'
<1> SUFFICES ASSUME IInv, MirrorRoot PROVE IInv' OBVIOUS
<1>1. /\ step \in {"root first", "root last"} /\ step' \in {"mirror first", "mirror last"}
      /\ mirrored' = parity /\ copy' = Published
      /\ UNCHANGED <<scope, exit, cell, todo, valid, invalid>>
      /\ UNCHANGED <<runs, attempts, published, retired, verdict, mirror, parity, code, rejected>>
  BY DEF MirrorRoot, Go, places, gates
<1>2. StoreTypes /\ ScriptTypes BY TypedNow
<1>3. copy' \subseteq Cells /\ (\A c \in copy' : published'[c] # 0) /\ Published' = Published
  BY <1>1 DEF Published
<1>4. StoreTypes' BY <1>1, <1>2 DEF StoreTypes
<1>5. ScriptTypes'
  <2>1. cell = None BY <1>1, <1>2 DEF ScriptTypes
  <2> QED BY <1>1, <1>2, <1>3, <2>1 DEF ScriptTypes
<1>6. Places' BY <1>1, PlacesKept DEF IInv
<1>7. Running' BY <1>1 DEF IInv, Running
<1>8. Copying' BY <1>1, <1>3 DEF Copying, Mirrors
<1>9. SuccessIsWhole' BY <1>1, NoSuccess
<1> QED BY <1>3, <1>4, <1>5, <1>6, <1>7, <1>8, <1>9, Together

LEMMA PlanInv == IInv /\ Plan => IInv'
<1> SUFFICES ASSUME IInv, Plan PROVE IInv' OBVIOUS
<1>1. /\ step = "mirror first" /\ copy = {} /\ step' = "next"
      /\ todo' = {c \in Cells \ Accounted : Status(c) = "new"}
      /\ UNCHANGED <<scope, exit, cell, copy, valid, invalid>>
      /\ UNCHANGED <<places, copies, gates>> /\ UNCHANGED parity
  BY DEF Plan, Go
<1>2. StoreTypes /\ ScriptTypes BY TypedNow
<1>3. parity \in Records BY <1>2 DEF StoreTypes
<1>4. StoreTypes' /\ Places' BY <1>1, <1>3, QuietTypes
<1>5. todo' \subseteq Cells BY <1>1
<1>6. ScriptTypes' BY <1>1, <1>2, <1>5 DEF ScriptTypes
<1>7. Running' BY <1>1 DEF IInv, Running, places
<1>8. Copying' BY <1>1 DEF Copying, Mirrors
<1>9. SuccessIsWhole' BY <1>1, NoSuccess
<1> QED BY <1>1, <1>4, <1>6, <1>7, <1>8, <1>9, Together

LEMMA ScopeParityInv == IInv /\ ScopeParity => IInv'
<1> SUFFICES ASSUME IInv, ScopeParity PROVE IInv' OBVIOUS
<1>1. /\ step = "next" /\ Parity /\ step' = "root last"
      /\ UNCHANGED <<scope, exit, cell, todo, copy, valid, invalid>>
      /\ UNCHANGED <<places, copies, gates>>
  BY DEF ScopeParity, Go, locals
<1>2. StoreTypes /\ ScriptTypes BY TypedNow
<1>3. copy = {} BY <1>1 DEF IInv, Copying, Mirrors
<1>4. StoreTypes' /\ Places' BY <1>1, <1>2, ParityTypes, QuietTypes
<1>5. ScriptTypes' BY <1>1, <1>2 DEF ScriptTypes
<1>6. Running' BY <1>1 DEF IInv, Running, places
<1>7. Copying' BY <1>1, <1>3 DEF Copying, Mirrors
<1>8. SuccessIsWhole' BY <1>1, NoSuccess
<1> QED BY <1>1, <1>3, <1>4, <1>5, <1>6, <1>7, <1>8, Together

LEMMA ARun == \A k \in 0 .. MaxRuns : k # 0 => k \in 1 .. MaxRuns
BY StoreAssumption

\* What rows_status reads, with everything copied, is what the success of a scope promises.
LEMMA WholeWhenDone ==
  ASSUME IInv, Ready, Covered, parity.rc = 0, step = "mirror last", copy = {}
  PROVE  /\ \A c \in Cells \ Accounted : published[c] # 0
         /\ \A c \in Published :
              /\ parity.cells[c] \in IF c \in Accounted THEN {0, published[c]} ELSE {published[c]}
              /\ parity.cells[c] # 0 <=> verdict[published[c]] = "valid" /\ published[c] \notin rejected
              /\ mirror[c] = [run |-> published[c], whole |-> TRUE]
         /\ parity.rc = 0 /\ parity.code = code
         /\ mirrored = parity
<1>1. parity.cells = Runs /\ parity.code = code BY DEF Covered
<1>2. mirrored = parity /\ \A c \in Published : mirror[c] = [run |-> published[c], whole |-> TRUE]
  BY DEF IInv, Copying
<1>3. \A c \in Cells \ Accounted : Status(c) = "done" BY DEF Ready
<1>4. \A c \in Cells : Status(c) = "done" =>
        published[c] # 0 /\ verdict[published[c]] = "valid" /\ published[c] \notin rejected
  <2> SUFFICES ASSUME NEW c \in Cells, Status(c) = "done"
               PROVE  published[c] # 0 /\ verdict[published[c]] = "valid" /\ published[c] \notin rejected
    OBVIOUS
  <2>1. published[c] # 0 BY DEF Status
  <2>2. verdict[published[c]] # "none" /\ verdict[published[c]] # "invalid" /\ published[c] \notin rejected
    BY <2>1 DEF Status
  <2>3. published[c] \in 1 .. MaxRuns
    <3>1. published[c] \in 0 .. MaxRuns BY TypedNow DEF StoreTypes
    <3> QED BY <2>1, <3>1, ARun
  <2> QED BY <2>1, <2>2, <2>3, TypedNow DEF StoreTypes
<1>5. \A c \in Published : verdict[published[c]] = "valid" /\ published[c] \notin rejected => Status(c) = "done"
  BY DEF Published, Status
<1>6. \A c \in Published : parity.cells[c] = IF Status(c) = "done" THEN published[c] ELSE 0
  BY <1>1 DEF Runs, Published
<1>7. \A c \in Published : c \in Cells /\ published[c] # 0 BY DEF Published
<1> QED BY <1>1, <1>2, <1>3, <1>4, <1>5, <1>6, <1>7

LEMMA ScopeEndsInv == IInv /\ ScopeEnds => IInv'
<1> SUFFICES ASSUME IInv, ScopeEnds PROVE IInv' OBVIOUS
<1> DEFINE rc == IF Ready /\ Covered /\ parity.rc = 0 THEN 0 ELSE 1
<1>1. /\ step = "mirror last" /\ copy = {} /\ Ends(rc)
      /\ UNCHANGED <<places, copies, parity, gates>>
      /\ UNCHANGED <<runs, attempts, published, retired, verdict, mirror, mirrored, parity, code, rejected>>
  BY DEF ScopeEnds, places, copies, gates
<1>2. StoreTypes /\ ScriptTypes BY TypedNow
<1>3. CASE ~(Ready /\ Covered /\ parity.rc = 0)
  <2>1. Ends(1) BY <1>1, <1>3
  <2>2. 1 \in -1 .. 3 /\ 1 # 0 OBVIOUS
  <2> QED BY <1>1, <2>1, <2>2, EndsInv
<1>4. CASE Ready /\ Covered /\ parity.rc = 0
  <2>1. Ends(0) BY <1>1, <1>4
  <2>2. 0 \in -1 .. 3 OBVIOUS
  <2>3. ScriptTypes' /\ copy' = {} BY <1>2, <2>1, <2>2, EndsTypes
  <2>4. step' = "idle" BY <2>1 DEF Ends
  <2>5. StoreTypes' BY <1>1, <1>2, StoreKept
  <2>6. Places' BY <1>1, PlacesKept DEF IInv
  <2>7. Running' /\ Copying' BY <1>1, <2>3, <2>4, OffDuty DEF IInv
  <2>8. Published' = Published BY <1>1 DEF Published
  <2>9. SuccessIsWhole' BY <1>1, <1>4, <2>8, WholeWhenDone DEF SuccessIsWhole
  <2> QED BY <2>3, <2>5, <2>6, <2>7, <2>9, Together
<1> QED BY <1>3, <1>4

-----------------------------------------------------------------------------
(* The owner, and a script that is killed *)

LEMMA KilledInv == IInv /\ Killed => IInv'
BY EndsInv, NoExit DEF Killed

LEMMA OwnerSteps ==
  ASSUME IInv, Owner
  PROVE  /\ copy = {} /\ copy' = {} /\ step = "idle" /\ step' = "idle" /\ exit' = -1
         /\ ScriptTypes' /\ SuccessIsWhole'
<1>1. Starts(FALSE) /\ UNCHANGED <<step, locals>> /\ step = "idle" BY DEF Owner, Starts
<1>2. copy = {} BY <1>1 DEF IInv, Copying, Mirrors
<1>3. copy' = {} /\ step' = "idle" BY <1>1, <1>2 DEF locals
<1>4. ScriptTypes' /\ exit' = -1 BY <1>1, <1>3, TypedNow, StartsTypes
<1>5. SuccessIsWhole' BY <1>4, NoSuccess
<1> QED BY <1>1, <1>2, <1>3, <1>4, <1>5

\* The run that is retired was the cell's only one: nothing of the cell is left that is not retired.
LEMMA RetireInv == ASSUME IInv, NEW c \in Cells, Retire(c) PROVE IInv'
<1>1. /\ Owner /\ published[c] # 0
      /\ retired' = [retired EXCEPT ![c] = @ \cup {published[c]}]
      /\ published' = [published EXCEPT ![c] = 0]
      /\ UNCHANGED <<runs, attempts, verdict, mirror, mirrored, parity, code, rejected>>
  BY DEF Retire, copies, gates
<1>2. copy' = {} /\ step' = "idle" /\ ScriptTypes' /\ SuccessIsWhole' BY <1>1, OwnerSteps
<1>3. StoreTypes BY TypedNow
<1>4. published[c] \in 1 .. MaxRuns BY <1>1, <1>3, ARun DEF StoreTypes
<1>5. /\ published'[c] = 0 /\ retired'[c] = retired[c] \cup {published[c]}
      /\ \A d \in Cells : d # c => published'[d] = published[d] /\ retired'[d] = retired[d]
  BY <1>1, <1>3 DEF StoreTypes
<1>6. StoreTypes'
  <2>1. retired[c] \cup {published[c]} \in RunSets BY <1>3, <1>4 DEF StoreTypes, RunSets
  <2>2. retired' \in [Cells -> RunSets] BY <1>1, <1>3, <2>1 DEF StoreTypes
  <2>3. 0 \in 0 .. MaxRuns BY StoreAssumption
  <2>4. published' \in [Cells -> 0 .. MaxRuns] BY <1>1, <1>3, <2>3 DEF StoreTypes
  <2> QED BY <1>1, <1>3, <2>2, <2>4 DEF StoreTypes
<1>7. Places'
  <2>1. published[c] \in Live(c) BY <1>1 DEF Live
  <2>2. attempts[c] = {}
    <3>1. \A k \in attempts[c] : k \in Live(c) BY DEF Live
    <3>2. \A k \in attempts[c] : k = published[c] BY <2>1, <3>1 DEF IInv, Places
    <3> QED BY <3>2 DEF IInv, Places
  <2>3. Live(c) = {published[c]} BY <1>1, <2>2 DEF Live
  <2>4. Live(c)' = {} BY <1>1, <1>5, <2>2 DEF Live
  <2>5. \A d \in Cells : d # c => Live(d)' = Live(d) BY <1>1, <1>5 DEF Live
  <2>6. \A d \in Cells : Live(d)' \cup retired'[d] = Live(d) \cup retired[d] BY <1>5, <2>3, <2>4, <2>5
  <2>7. \A d \in Cells : d # c => published[c] \notin Live(d) BY <2>3 DEF IInv, Places
  <2>8. \A d, e \in Cells : Live(d)' \cap retired'[e] = {}
    <3> SUFFICES ASSUME NEW d \in Cells, NEW e \in Cells PROVE Live(d)' \cap retired'[e] = {} OBVIOUS
    <3>1. CASE d = c BY <2>4, <3>1
    <3>2. CASE d # c
      <4>1. Live(d)' = Live(d) /\ Live(d) \cap retired[e] = {} BY <2>5, <3>2 DEF IInv, Places
      <4>2. published[c] \notin Live(d) BY <2>7, <3>2
      <4>3. retired'[e] \subseteq retired[e] \cup {published[c]} BY <1>5
      <4> QED BY <4>1, <4>2, <4>3
    <3> QED BY <3>1, <3>2
  <2>9. \A d \in Cells : published'[d] \notin attempts'[d]
    BY <1>1, <1>5, <2>2 DEF IInv, Places
  <2>10. \A d \in Cells : \A j, k \in Live(d)' : j = k BY <2>4, <2>5 DEF IInv, Places
  <2>11. \A k \in 1 .. runs' : \E d \in Cells : k \in Live(d)' \cup retired'[d] BY <1>1, <2>6 DEF IInv, Places
  <2>12. \A d \in Cells : Live(d)' \cup retired'[d] \subseteq 1 .. runs' BY <1>1, <2>6 DEF IInv, Places
  <2>13. \A d, e \in Cells : d # e => (Live(d)' \cup retired'[d]) \cap (Live(e)' \cup retired'[e]) = {}
    BY <2>6 DEF IInv, Places
  <2> QED BY <2>8, <2>9, <2>10, <2>11, <2>12, <2>13 DEF Places
<1>8. Running' /\ Copying' BY <1>1, <1>2, OffDuty DEF IInv
<1> QED BY <1>2, <1>6, <1>7, <1>8, Together

LEMMA PublishByHandInv == ASSUME IInv, NEW c \in Cells, PublishByHand(c) PROVE IInv'
<1>1. PICK k \in attempts[c] : Rename(c, k) BY DEF PublishByHand
<1>2. /\ Owner /\ UNCHANGED <<mirror, mirrored, parity, code, rejected>> /\ UNCHANGED <<runs, retired, verdict>>
  BY <1>1 DEF PublishByHand, Rename, copies, gates
<1>3. copy' = {} /\ step' = "idle" /\ ScriptTypes' /\ SuccessIsWhole' BY <1>2, OwnerSteps
<1>4. Places' /\ attempts' \in [Cells -> RunSets] /\ published' \in [Cells -> 0 .. MaxRuns]
  BY <1>1, RenamePlaces
<1>5. StoreTypes' BY <1>2, <1>4, TypedNow DEF StoreTypes
<1>6. Running' /\ Copying' BY <1>2, <1>3, OffDuty DEF IInv
<1> QED BY <1>3, <1>4, <1>5, <1>6, Together

LEMMA MoveMirrorAsideInv == ASSUME IInv, NEW c \in Cells, MoveMirrorAside(c) PROVE IInv'
<1>1. /\ Owner /\ mirror' = [mirror EXCEPT ![c] = NoCopy]
      /\ UNCHANGED <<runs, attempts, published, retired, verdict, mirrored, parity, code, rejected>>
  BY DEF MoveMirrorAside, places, gates
<1>2. copy' = {} /\ step' = "idle" /\ ScriptTypes' /\ SuccessIsWhole' BY <1>1, OwnerSteps
<1>3. mirror' \in [Cells -> [run : 0 .. MaxRuns, whole : BOOLEAN]]
  <2>1. 0 \in 0 .. MaxRuns BY StoreAssumption
  <2>2. NoCopy \in [run : 0 .. MaxRuns, whole : BOOLEAN] BY <2>1 DEF NoCopy
  <2> QED BY <1>1, <2>2, TypedNow DEF StoreTypes
<1>4. StoreTypes' BY <1>1, <1>3, TypedNow DEF StoreTypes
<1>5. Places' BY <1>1, PlacesKept DEF IInv
<1>6. Running' /\ Copying' BY <1>1, <1>2, OffDuty DEF IInv
<1> QED BY <1>2, <1>4, <1>5, <1>6, Together

LEMMA FixGatesInv == IInv /\ FixGates => IInv'
<1> SUFFICES ASSUME IInv, FixGates PROVE IInv' OBVIOUS
<1>1. /\ Owner /\ code < MaxCode /\ code' = code + 1
      /\ rejected' \in SUBSET {k \in 1 .. runs : verdict[k] = "valid"}
      /\ UNCHANGED <<runs, attempts, published, retired, verdict, mirror, mirrored, parity>>
  BY DEF FixGates, places, copies
<1>2. copy' = {} /\ step' = "idle" /\ ScriptTypes' /\ SuccessIsWhole' BY <1>1, OwnerSteps
<1>3. code' \in 1 .. MaxCode
  <2>1. code \in 1 .. MaxCode /\ MaxCode \in Nat BY TypedNow, StoreAssumption DEF StoreTypes
  <2> QED BY <1>1, <2>1
<1>4. StoreTypes' BY <1>1, <1>3, TypedNow DEF StoreTypes
<1>5. Places' BY <1>1, PlacesKept DEF IInv
<1>6. Running' /\ Copying' BY <1>1, <1>2, OffDuty DEF IInv
<1> QED BY <1>2, <1>4, <1>5, <1>6, Together

-----------------------------------------------------------------------------

LEMMA InitIInv == Init => IInv
<1> SUFFICES ASSUME Init PROVE IInv OBVIOUS
<1>1. /\ step = "idle" /\ exit = -1 /\ copy = {} /\ runs = 0
      /\ \A c \in Cells : attempts[c] = {} /\ published[c] = 0 /\ retired[c] = {}
      /\ \A k \in 1 .. MaxRuns : verdict[k] = "none"
  BY DEF Init
<1>2. Places
  <2>1. \A c \in Cells : Live(c) = {} BY <1>1 DEF Live
  <2>2. 1 .. runs = {} BY <1>1
  <2> QED BY <1>1, <2>1, <2>2 DEF Places
<1>3. Running /\ Copying BY <1>1 DEF Running, Copying, Mirrors
<1>4. SuccessIsWhole BY <1>1 DEF SuccessIsWhole
<1> QED BY <1>2, <1>3, <1>4, InitTypeOK DEF IInv

LEMMA NextIInv == IInv /\ [Next]_vars => IInv'
<1> SUFFICES ASSUME IInv, [Next]_vars PROVE IInv' OBVIOUS
<1>1. CASE UNCHANGED vars
  <2>1. UNCHANGED <<runs, attempts, published, retired, verdict, mirror, mirrored, parity, code, rejected>>
    BY <1>1 DEF vars, places, copies, gates
  <2>2. UNCHANGED <<step, scope, cell, todo, copy, valid, invalid, exit>> BY <1>1 DEF vars, script, locals
  <2>3. StoreTypes' BY <2>1, TypedNow, StoreKept
  <2>4. ScriptTypes' BY <2>2, TypedNow DEF ScriptTypes
  <2>5. Places' BY <2>1, PlacesKept DEF IInv
  <2>6. Running' BY <2>1, <2>2 DEF IInv, Running
  <2>7. Copying' BY <2>1, <2>2 DEF IInv, Copying, Published
  <2>8. SuccessIsWhole'
    <3>1. Published' = Published BY <2>1 DEF Published
    <3> QED BY <2>1, <2>2, <3>1 DEF IInv, SuccessIsWhole
  <2> QED BY <2>1, <2>2, <2>3, <2>4, <2>5, <2>6, <2>7, <2>8, TypedNow, Together
<1>2. ASSUME NEW c \in Cells,
             MirrorBegins(c) \/ MirrorEnds(c) \/ Retire(c) \/ PublishByHand(c) \/ MoveMirrorAside(c)
      PROVE  IInv'
  BY <1>2, MirrorBeginsInv, MirrorEndsInv, RetireInv, PublishByHandInv, MoveMirrorAsideInv
<1>3. CASE RunCellAlone \/ Recorded \/ Judge \/ Publish \/ CellParity \/ CellEnds
  BY <1>3, RunCellAloneInv, RecordedInv, JudgeInv, PublishInv, CellParityInv, CellEndsInv
<1>4. CASE RunScope \/ MirrorRoot \/ Plan \/ NextCell \/ ScopeParity \/ ScopeEnds
  BY <1>4, RunScopeInv, MirrorRootInv, PlanInv, NextCellInv, ScopeParityInv, ScopeEndsInv
<1>5. CASE Killed \/ FixGates BY <1>5, KilledInv, FixGatesInv
<1> QED BY <1>1, <1>2, <1>3, <1>4, <1>5 DEF Next

LEMMA AlwaysIInv == Spec => []IInv
<1> QED BY InitIInv, NextIInv, PTL DEF Spec

LEMMA OneAtMost ==
  ASSUME NEW S, \A j, k \in S : j = k
  PROVE  Cardinality(S) <= 1
<1>1. CASE S = {} BY <1>1, FS_EmptySet
<1>2. CASE S # {}
  <2>1. PICK x : x \in S BY <1>2
  <2>2. S = {x} BY <2>1
  <2>3. Cardinality(S) = 1 BY <2>2, FS_Singleton
  <2> QED BY <2>3
<1> QED BY <1>1, <1>2

\* Whatever crashes, and whatever the owner moves, every recorded run of every cell is kept in exactly one of
\* _attempts, the cells root and _retired, and a cell has one that is not retired at most (prepare and publish of
\* scripts/run_cell.sh, retire of tools/cell_driver.py).
THEOREM RunsAreKept == Spec => []OneLiveRun
<1>1. IInv => OneLiveRun
  <2> SUFFICES ASSUME IInv PROVE OneLiveRun OBVIOUS
  <2>1. UNION {Live(c) \cup retired[c] : c \in Cells} = 1 .. runs BY DEF IInv, Places
  <2>2. \A c \in Cells : Cardinality(Live(c)) <= 1 BY OneAtMost DEF IInv, Places
  <2> QED BY <2>1, <2>2 DEF OneLiveRun, IInv, Places
<1> QED BY <1>1, AlwaysIInv, PTL

\* A run_scope.sh that exits 0 leaves every cell it accounts for published, valid under the gates on disk, under a
\* parity record of exactly those runs, and copied whole to the second location with that record.
THEOREM SuccessMeansWhole == Spec => []SuccessIsWhole
<1>1. IInv => SuccessIsWhole BY DEF IInv
<1> QED BY <1>1, AlwaysIInv, PTL

\* No step of the scripts puts another run over a mirror copy, nor makes a whole copy partial (fresh of
\* scripts/mirror.sh): only the owner takes a copy away.
THEOREM MirrorIsNeverMixed == Spec => MirrorNeverMixes
<1> DEFINE Kept ==
      \A c \in Cells :
        mirror[c].run # 0 /\ mirror'[c].run # 0 =>
          mirror'[c].run = mirror[c].run /\ (mirror[c].whole => mirror'[c].whole)
<1>1. IInv /\ [Next]_vars => [Kept]_vars
  <2> SUFFICES ASSUME IInv, Next PROVE Kept OBVIOUS
  <2>1. mirror \in [Cells -> [run : 0 .. MaxRuns, whole : BOOLEAN]] BY TypedNow DEF StoreTypes
  <2>2. CASE UNCHANGED mirror BY <2>2
  <2>3. ASSUME NEW c \in Cells, MirrorBegins(c), ~UNCHANGED mirror PROVE Kept
    <3>1. /\ mirror[c] # [run |-> published[c], whole |-> TRUE]
          /\ Fresh(c) /\ mirror' = [mirror EXCEPT ![c] = [run |-> published[c], whole |-> FALSE]]
      BY <2>3 DEF MirrorBegins
    <3>2. mirror'[c].run = published[c] BY <2>1, <3>1
    <3>3. \A d \in Cells : d # c => mirror'[d] = mirror[d] BY <2>1, <3>1
    <3>4. mirror[c].run # 0 => mirror[c].run = published[c] BY <3>1 DEF Fresh
    <3>5. mirror[c].run = published[c] => ~mirror[c].whole
      <4>1. mirror[c] \in [run : 0 .. MaxRuns, whole : BOOLEAN] BY <2>1
      <4>2. mirror[c] = [run |-> mirror[c].run, whole |-> mirror[c].whole] BY <4>1
      <4>3. mirror[c].whole \in BOOLEAN BY <4>1
      <4> QED BY <3>1, <4>2, <4>3
    <3> QED BY <3>2, <3>3, <3>4, <3>5
  <2>4. ASSUME NEW c \in Cells, MirrorEnds(c) PROVE Kept
    <3>1. mirror' = [mirror EXCEPT ![c].whole = TRUE] BY <2>4 DEF MirrorEnds
    <3>2. mirror'[c].run = mirror[c].run /\ mirror'[c].whole /\ \A d \in Cells : d # c => mirror'[d] = mirror[d]
      BY <2>1, <3>1
    <3> QED BY <3>2
  <2>5. ASSUME NEW c \in Cells, MoveMirrorAside(c) PROVE Kept
    <3>1. mirror' = [mirror EXCEPT ![c] = NoCopy] BY <2>5 DEF MoveMirrorAside
    <3>2. mirror'[c].run = 0 /\ \A d \in Cells : d # c => mirror'[d] = mirror[d] BY <2>1, <3>1 DEF NoCopy
    <3> QED BY <3>2
  <2>6. ASSUME NEW c \in Cells, Retire(c) \/ PublishByHand(c) PROVE UNCHANGED mirror
    BY <2>6 DEF Retire, PublishByHand, copies
  <2>7. CASE RunCellAlone \/ Recorded \/ Judge \/ Publish \/ CellParity \/ CellEnds
    BY <2>2, <2>7 DEF RunCellAlone, Recorded, Judge, Publish, CellParity, CellEnds, copies
  <2>8. CASE RunScope \/ MirrorRoot \/ Plan \/ NextCell \/ ScopeParity \/ ScopeEnds \/ Killed \/ FixGates
    BY <2>2, <2>8 DEF RunScope, MirrorRoot, Plan, NextCell, ScopeParity, ScopeEnds, Killed, FixGates, copies
  <2> QED BY <2>2, <2>3, <2>4, <2>5, <2>6, <2>7, <2>8 DEF Next
<1>2. Spec => [][Kept]_vars BY <1>1, AlwaysIInv, PTL DEF Spec
<1> QED BY <1>2 DEF MirrorNeverMixes
=============================================================================
