----------------------- MODULE TerminalSessionsProofs -----------------------
(***************************************************************************)
(* Theorems of TerminalSessions, for any starts, folders, limits and       *)
(* bounds.                                                                 *)
(***************************************************************************)
EXTENDS TerminalSessions, FiniteSetTheorems, TLAPS

----------------------------------------------------------------------------
(* The inductive invariants *)

(* What a start is to the registry and to the system at each step of its command *)
Life(s) ==
    /\ s \in pending <=> pc[s] \in {"reserved", "spawned"}
    /\ s \in live => pc[s] \in {"ok", "done"} /\ proc[s] \in {"up", "exited", "told"}
    /\ s \in tearing => /\ pc[s] \in {"ok", "refused", "done"} /\ s \notin live
                        /\ proc[s] \in {"up", "exited", "told"}
    /\ proc[s] \in {"up", "exited", "told"} => s \in live \cup tearing \/ pc[s] = "spawned"
    /\ pc[s] = "spawned" => proc[s] \in {"up", "exited", "told"}
    /\ pc[s] \in {"idle", "asked", "captured", "reserved"} => proc[s] = "none"

Lives == \A s \in Starts : Life(s)

(* `ending` counts the teardowns. *)
Counted == ending = Cardinality(tearing)

(* A sweep leaves nothing that may still become live. *)
Swept ==
    /\ cancelled \subseteq pending
    /\ swept \cap pending \subseteq cancelled
    /\ swept \cap live = {}
    /\ \A s \in swept : pc[s] \notin {"idle", "asked", "captured"}

(* An exit heard while its start is not registered is remembered. *)
Heard ==
    /\ \A s \in early : proc[s] \in {"told", "gone"}
    /\ \A s \in live : proc[s] # "told"
    /\ \A s \in Starts : pc[s] = "spawned" /\ proc[s] = "told" => s \in early

(* Nothing is live once the quit has swept, and nothing is left once it returns. *)
QuitHolds ==
    /\ main \in {"waiting", "left"} => live = {}
    /\ main = "left" => pending = {} /\ tearing = {}

(* The slots *)
Slots ==
    /\ Cardinality(live \cup pending \cup tearing) <= cap.total
    /\ \A p \in {f.project : f \in Folders} :
           Cardinality(InProject(live \cup pending, p)) <= cap.perProject

(* One folder for the sessions and the starts in flight that are not cancelled. *)
Wanted == live \cup (pending \ cancelled)
Homes ==
    /\ \A s, t \in Wanted : Project(s) = Project(t) => ask[s].folder = ask[t].folder
    /\ \A s \in Starts : pc[s] # "idle" => ask[s].folder \in Folders

(* Under Prompt: a start on its way was asked by the page that it saw. *)
Pages ==
    /\ \A s \in Starts : pc[s] = "asked" => ask[s].page = page
    /\ \A s \in Starts : pc[s] \notin {"idle", "asked"} => ask[s].page = seen[s]
    /\ main # "loading" => \A s \in live : ask[s].page = page

(* What the tabs say of sessions, and what is asked for them *)
Tabs ==
    /\ \A s \in Starts : tab[s] = "none" <=> pc[s] = "idle"
    /\ \A s \in Starts : tab[s] = "starting" => pc[s] # "done"
    /\ \A s \in Starts : tab[s] = "running" => pc[s] = "done"
    /\ \A s \in ends : tab[s] = "gone"
    /\ sweeps => current = NoFolder
    /\ current = NoFolder => \A s \in Starts : tab[s] \in {"none", "gone"}
    /\ current # NoFolder => current.project \notin backstop
    /\ \A s \in Starts : pc[s] # "idle" /\ Project(s) \in backstop => tab[s] = "gone"

----------------------------------------------------------------------------
(* Types *)

(* Sets of starts are finite. *)
LEMMA Sets ==
    \A S \in SUBSET Starts : IsFiniteSet(S) /\ Cardinality(S) \in Nat
BY FS_Subset, FS_CardinalityType, TerminalAssumption DEF TerminalAssumption

LEMMA InitTypes == Init => TypeOK
<1>1. MaxPages \in Nat /\ MaxOpens \in Nat
  BY TerminalAssumption DEF TerminalAssumption
<1> SUFFICES ASSUME Init PROVE TypeOK
  OBVIOUS
<1>2. sweeps \in BOOLEAN
  BY DEF Init
<1>3. /\ ask \in [Starts -> [folder : Folders \cup {NoFolder}, page : 0..MaxPages]]
      /\ seen \in [Starts -> 0..MaxPages]
  BY <1>1 DEF Init
<1> QED BY <1>1, <1>2, <1>3 DEF Init, TypeOK

LEMMA TypesStep == TypeOK /\ [Next]_vars => TypeOK'
<1> SUFFICES ASSUME TypeOK, [Next]_vars PROVE TypeOK'
  OBVIOUS
<1>0. 0 \in 0..MaxPages /\ MaxPages \in Nat /\ MaxOpens \in Nat /\ \A S \in SUBSET Starts : Cardinality(S) \in Nat
  BY TerminalAssumption, Sets DEF TerminalAssumption
<1> USE DEF TypeOK
<1>1. ASSUME NEW f \in Folders, OpenProject(f), cap' = cap PROVE TypeOK'
  BY <1>1, <1>0 DEF OpenProject, frontVars, askedVars, startVars, registryVars, processVars
<1>2. CASE ToLauncher /\ cap' = cap
  BY <1>2, <1>0 DEF ToLauncher, frontVars, askedVars, startVars, registryVars, processVars
<1>3. CASE CloseProject /\ cap' = cap
  BY <1>3, <1>0 DEF CloseProject, frontVars, askedVars, startVars, registryVars, processVars
<1>4. CASE EndAll /\ cap' = cap
  <2>1. live \cap Starts \in SUBSET Starts /\ Cardinality(live \cap Starts) \in Nat
    BY <1>0
  <2>2. sweeps' \in BOOLEAN
    BY <1>4 DEF EndAll
  <2>3. ending' \in Int /\ tearing' \subseteq Starts /\ swept' \subseteq Starts
    BY <1>4, <2>1 DEF EndAll, Sweep, Tear
  <2>4. live' \subseteq Starts /\ cancelled' \subseteq pending
    BY <1>4 DEF EndAll, Sweep
  <2> QED BY <1>4, <2>2, <2>3, <2>4 DEF EndAll, frontVars, startVars
<1>5. ASSUME NEW t \in Starts, StartSession(t), cap' = cap PROVE TypeOK'
  BY <1>5, <1>0 DEF StartSession, frontVars, askedVars, startVars, registryVars, processVars
<1>6. ASSUME NEW t \in Starts, EndSession(t), cap' = cap PROVE TypeOK'
  BY <1>6, <1>0 DEF EndSession, frontVars, askedVars, startVars, registryVars, processVars
<1>7. ASSUME NEW t \in Starts, HearStart(t), cap' = cap PROVE TypeOK'
  BY <1>7, <1>0 DEF HearStart, frontVars, askedVars, startVars, registryVars, processVars
<1>8. ASSUME NEW t \in Starts, Capture(t), cap' = cap PROVE TypeOK'
  BY <1>8, <1>0 DEF Capture, frontVars, askedVars, startVars, registryVars, processVars
<1>9. ASSUME NEW t \in Starts, Reserve(t), cap' = cap PROVE TypeOK'
  BY <1>9, <1>0 DEF Reserve, frontVars, askedVars, startVars, registryVars, processVars
<1>10. ASSUME NEW t \in Starts, Spawn(t), cap' = cap PROVE TypeOK'
  BY <1>10, <1>0 DEF Spawn, frontVars, askedVars, startVars, registryVars, processVars
<1>11. ASSUME NEW t \in Starts, SpawnFails(t), cap' = cap PROVE TypeOK'
  BY <1>11, <1>0 DEF SpawnFails, frontVars, askedVars, startVars, registryVars, processVars
<1>12. ASSUME NEW t \in Starts, Register(t), cap' = cap PROVE TypeOK'
  <2>1. {t} \in SUBSET Starts /\ Cardinality({t}) \in Nat
    BY <1>0
  <2>2. ending' \in Int /\ tearing' \subseteq Starts /\ live' \subseteq Starts
    BY <1>12, <2>1 DEF Register, Tear
  <2> QED BY <1>12, <1>0, <2>2 DEF Register, frontVars, askedVars, processVars
<1>13. ASSUME NEW t \in Starts, EndOne(t), cap' = cap PROVE TypeOK'
  <2>1. live \cap {t} \in SUBSET Starts /\ Cardinality(live \cap {t}) \in Nat
    BY <1>0
  <2> QED BY <1>13, <1>0, <2>1 DEF EndOne, Tear, frontVars, startVars
<1>14. ASSUME NEW t \in Starts, EndFinishes(t), cap' = cap PROVE TypeOK'
  BY <1>14, <1>0 DEF EndFinishes, frontVars, askedVars, startVars, registryVars, processVars
<1>15. ASSUME NEW t \in Starts, ShellExits(t), cap' = cap PROVE TypeOK'
  BY <1>15, <1>0 DEF ShellExits, frontVars, askedVars, startVars, registryVars, processVars
<1>16. ASSUME NEW t \in Starts, SelfExit(t), cap' = cap PROVE TypeOK'
  BY <1>16, <1>0 DEF SelfExit, Tear, frontVars, askedVars, startVars, registryVars, processVars
<1>17. ASSUME NEW p \in backstop, EndProject(p), cap' = cap PROVE TypeOK'
  BY <1>17, <1>0 DEF EndProject, Sweep, Tear, frontVars, askedVars, startVars, registryVars, processVars
<1>18. CASE PageLoads /\ cap' = cap
  BY <1>18, <1>0 DEF PageLoads, frontVars, askedVars, startVars, registryVars, processVars
<1>19. CASE PageSweeps /\ cap' = cap
  BY <1>19, <1>0 DEF PageSweeps, Sweep, Tear, frontVars, askedVars, startVars, registryVars, processVars
<1>20. CASE Quit /\ cap' = cap
  BY <1>20, <1>0 DEF Quit, frontVars, askedVars, startVars, registryVars, processVars
<1>21. CASE QuitSweeps /\ cap' = cap
  BY <1>21, <1>0 DEF QuitSweeps, Sweep, Tear, frontVars, askedVars, startVars, registryVars, processVars
<1>22. CASE QuitReturns /\ cap' = cap
  BY <1>22, <1>0 DEF QuitReturns, frontVars, askedVars, startVars, registryVars, processVars
<1>23. CASE UNCHANGED vars
  BY <1>23, <1>0 DEF vars, frontVars, askedVars, startVars, registryVars, processVars
<1> QED BY <1>1, <1>2, <1>3, <1>4, <1>5, <1>6, <1>7, <1>8, <1>9, <1>10, <1>11, <1>12, <1>13, <1>14, <1>15, <1>16, <1>17, <1>18, <1>19, <1>20, <1>21, <1>22, <1>23 DEF Next

----------------------------------------------------------------------------
(* The life of a start *)

LEMMA LivesStep == TypeOK /\ Lives /\ [Next]_vars => Lives'
<1> SUFFICES ASSUME TypeOK, Lives, [Next]_vars, NEW s \in Starts PROVE Life(s)'
  BY DEF Lives
<1>0. /\ Life(s) /\ \A t \in Starts : Life(t)
      /\ pc \in [Starts -> {"idle", "asked", "captured", "reserved", "spawned", "ok",
                            "refused", "done"}]
      /\ proc \in [Starts -> {"none", "up", "exited", "told", "gone"}]
      /\ live \subseteq Starts /\ pending \subseteq Starts
  BY DEF Lives, TypeOK
<1> USE DEF Life
<1>1. ASSUME NEW f \in Folders, OpenProject(f), cap' = cap PROVE Life(s)'
  BY <1>1, <1>0 DEF OpenProject, frontVars, askedVars, startVars, registryVars, processVars
<1>2. CASE ToLauncher /\ cap' = cap
  BY <1>2, <1>0 DEF ToLauncher, frontVars, askedVars, startVars, registryVars, processVars
<1>3. CASE CloseProject /\ cap' = cap
  BY <1>3, <1>0 DEF CloseProject, frontVars, askedVars, startVars, registryVars, processVars
<1>4. CASE EndAll /\ cap' = cap
  BY <1>4, <1>0 DEF EndAll, Sweep, Tear, frontVars, askedVars, startVars, registryVars, processVars
<1>5. ASSUME NEW t \in Starts, StartSession(t), cap' = cap PROVE Life(s)'
  BY <1>5, <1>0 DEF StartSession, frontVars, askedVars, startVars, registryVars, processVars
<1>6. ASSUME NEW t \in Starts, EndSession(t), cap' = cap PROVE Life(s)'
  BY <1>6, <1>0 DEF EndSession, frontVars, askedVars, startVars, registryVars, processVars
<1>7. ASSUME NEW t \in Starts, HearStart(t), cap' = cap PROVE Life(s)'
  BY <1>7, <1>0 DEF HearStart, frontVars, askedVars, startVars, registryVars, processVars
<1>8. ASSUME NEW t \in Starts, Capture(t), cap' = cap PROVE Life(s)'
  BY <1>8, <1>0 DEF Capture, frontVars, askedVars, startVars, registryVars, processVars
<1>9. ASSUME NEW t \in Starts, Reserve(t), cap' = cap PROVE Life(s)'
  BY <1>9, <1>0 DEF Reserve, frontVars, askedVars, startVars, registryVars, processVars
<1>10. ASSUME NEW t \in Starts, Spawn(t), cap' = cap PROVE Life(s)'
  BY <1>10, <1>0 DEF Spawn, frontVars, askedVars, startVars, registryVars, processVars
<1>11. ASSUME NEW t \in Starts, SpawnFails(t), cap' = cap PROVE Life(s)'
  BY <1>11, <1>0 DEF SpawnFails, frontVars, askedVars, startVars, registryVars, processVars
<1>12. ASSUME NEW t \in Starts, Register(t), cap' = cap PROVE Life(s)'
  BY <1>12, <1>0 DEF Register, Tear, frontVars, askedVars, startVars, registryVars, processVars
<1>13. ASSUME NEW t \in Starts, EndOne(t), cap' = cap PROVE Life(s)'
  BY <1>13, <1>0 DEF EndOne, Tear, frontVars, askedVars, startVars, registryVars, processVars
<1>14. ASSUME NEW t \in Starts, EndFinishes(t), cap' = cap PROVE Life(s)'
  BY <1>14, <1>0 DEF EndFinishes, frontVars, askedVars, startVars, registryVars, processVars
<1>15. ASSUME NEW t \in Starts, ShellExits(t), cap' = cap PROVE Life(s)'
  BY <1>15, <1>0 DEF ShellExits, frontVars, askedVars, startVars, registryVars, processVars
<1>16. ASSUME NEW t \in Starts, SelfExit(t), cap' = cap PROVE Life(s)'
  BY <1>16, <1>0 DEF SelfExit, Tear, frontVars, askedVars, startVars, registryVars, processVars
<1>17. ASSUME NEW p \in backstop, EndProject(p), cap' = cap PROVE Life(s)'
  BY <1>17, <1>0 DEF EndProject, Sweep, Tear, frontVars, askedVars, startVars, registryVars, processVars
<1>18. CASE PageLoads /\ cap' = cap
  BY <1>18, <1>0 DEF PageLoads, frontVars, askedVars, startVars, registryVars, processVars
<1>19. CASE PageSweeps /\ cap' = cap
  BY <1>19, <1>0 DEF PageSweeps, Sweep, Tear, frontVars, askedVars, startVars, registryVars, processVars
<1>20. CASE Quit /\ cap' = cap
  BY <1>20, <1>0 DEF Quit, frontVars, askedVars, startVars, registryVars, processVars
<1>21. CASE QuitSweeps /\ cap' = cap
  BY <1>21, <1>0 DEF QuitSweeps, Sweep, Tear, frontVars, askedVars, startVars, registryVars, processVars
<1>22. CASE QuitReturns /\ cap' = cap
  BY <1>22, <1>0 DEF QuitReturns, frontVars, askedVars, startVars, registryVars, processVars
<1>23. CASE UNCHANGED vars
  BY <1>23, <1>0 DEF vars, frontVars, askedVars, startVars, registryVars, processVars
<1> QED BY <1>1, <1>2, <1>3, <1>4, <1>5, <1>6, <1>7, <1>8, <1>9, <1>10, <1>11, <1>12, <1>13, <1>14, <1>15, <1>16, <1>17, <1>18, <1>19, <1>20, <1>21, <1>22, <1>23 DEF Next

----------------------------------------------------------------------------
(* What a sweep took never becomes live *)

LEMMA SweptStep == TypeOK /\ Lives /\ Swept /\ [Next]_vars => Swept'
<1> SUFFICES ASSUME TypeOK, Lives, Swept, [Next]_vars PROVE Swept'
  OBVIOUS
<1>0. /\ \A s \in Starts : Life(s)
      /\ pc \in [Starts -> {"idle", "asked", "captured", "reserved", "spawned", "ok",
                            "refused", "done"}]
      /\ live \subseteq Starts /\ pending \subseteq Starts /\ swept \subseteq Starts
  BY DEF Lives, TypeOK
<1> USE DEF Swept, Life
<1>1. ASSUME NEW f \in Folders, OpenProject(f), cap' = cap PROVE Swept'
  BY <1>1, <1>0 DEF OpenProject, frontVars, askedVars, startVars, registryVars, processVars
<1>2. CASE ToLauncher /\ cap' = cap
  BY <1>2, <1>0 DEF ToLauncher, frontVars, askedVars, startVars, registryVars, processVars
<1>3. CASE CloseProject /\ cap' = cap
  BY <1>3, <1>0 DEF CloseProject, frontVars, askedVars, startVars, registryVars, processVars
<1>4. CASE EndAll /\ cap' = cap
  BY <1>4, <1>0 DEF EndAll, Sweep, Tear, frontVars, askedVars, startVars, registryVars, processVars
<1>5. ASSUME NEW t \in Starts, StartSession(t), cap' = cap PROVE Swept'
  BY <1>5, <1>0 DEF StartSession, frontVars, askedVars, startVars, registryVars, processVars
<1>6. ASSUME NEW t \in Starts, EndSession(t), cap' = cap PROVE Swept'
  BY <1>6, <1>0 DEF EndSession, frontVars, askedVars, startVars, registryVars, processVars
<1>7. ASSUME NEW t \in Starts, HearStart(t), cap' = cap PROVE Swept'
  BY <1>7, <1>0 DEF HearStart, frontVars, askedVars, startVars, registryVars, processVars
<1>8. ASSUME NEW t \in Starts, Capture(t), cap' = cap PROVE Swept'
  BY <1>8, <1>0 DEF Capture, frontVars, askedVars, startVars, registryVars, processVars
<1>9. ASSUME NEW t \in Starts, Reserve(t), cap' = cap PROVE Swept'
  BY <1>9, <1>0 DEF Reserve, frontVars, askedVars, startVars, registryVars, processVars
<1>10. ASSUME NEW t \in Starts, Spawn(t), cap' = cap PROVE Swept'
  BY <1>10, <1>0 DEF Spawn, frontVars, askedVars, startVars, registryVars, processVars
<1>11. ASSUME NEW t \in Starts, SpawnFails(t), cap' = cap PROVE Swept'
  BY <1>11, <1>0 DEF SpawnFails, frontVars, askedVars, startVars, registryVars, processVars
<1>12. ASSUME NEW t \in Starts, Register(t), cap' = cap PROVE Swept'
  BY <1>12, <1>0 DEF Register, Tear, frontVars, askedVars, startVars, registryVars, processVars, Unwanted
<1>13. ASSUME NEW t \in Starts, EndOne(t), cap' = cap PROVE Swept'
  BY <1>13, <1>0 DEF EndOne, Tear, frontVars, askedVars, startVars, registryVars, processVars
<1>14. ASSUME NEW t \in Starts, EndFinishes(t), cap' = cap PROVE Swept'
  BY <1>14, <1>0 DEF EndFinishes, frontVars, askedVars, startVars, registryVars, processVars
<1>15. ASSUME NEW t \in Starts, ShellExits(t), cap' = cap PROVE Swept'
  BY <1>15, <1>0 DEF ShellExits, frontVars, askedVars, startVars, registryVars, processVars
<1>16. ASSUME NEW t \in Starts, SelfExit(t), cap' = cap PROVE Swept'
  BY <1>16, <1>0 DEF SelfExit, Tear, frontVars, askedVars, startVars, registryVars, processVars
<1>17. ASSUME NEW p \in backstop, EndProject(p), cap' = cap PROVE Swept'
  BY <1>17, <1>0 DEF EndProject, Sweep, Tear, frontVars, askedVars, startVars, registryVars, processVars
<1>18. CASE PageLoads /\ cap' = cap
  BY <1>18, <1>0 DEF PageLoads, frontVars, askedVars, startVars, registryVars, processVars
<1>19. CASE PageSweeps /\ cap' = cap
  BY <1>19, <1>0 DEF PageSweeps, Sweep, Tear, frontVars, askedVars, startVars, registryVars, processVars
<1>20. CASE Quit /\ cap' = cap
  BY <1>20, <1>0 DEF Quit, frontVars, askedVars, startVars, registryVars, processVars
<1>21. CASE QuitSweeps /\ cap' = cap
  BY <1>21, <1>0 DEF QuitSweeps, Sweep, Tear, frontVars, askedVars, startVars, registryVars, processVars
<1>22. CASE QuitReturns /\ cap' = cap
  BY <1>22, <1>0 DEF QuitReturns, frontVars, askedVars, startVars, registryVars, processVars
<1>23. CASE UNCHANGED vars
  BY <1>23, <1>0 DEF vars, frontVars, askedVars, startVars, registryVars, processVars
<1> QED BY <1>1, <1>2, <1>3, <1>4, <1>5, <1>6, <1>7, <1>8, <1>9, <1>10, <1>11, <1>12, <1>13, <1>14, <1>15, <1>16, <1>17, <1>18, <1>19, <1>20, <1>21, <1>22, <1>23 DEF Next

(* A start that was in flight or live when its project closed, the page loaded or the
   quit began is not live afterwards, whatever the order of its command, the sweep and
   the spawn.                                                                     *)
THEOREM SweptStaysEnded == Spec => []SweptNeverLive
<1>1. Init => TypeOK /\ Lives /\ Swept
  BY InitTypes DEF Init, Lives, Life, Swept
<1>2. TypeOK /\ Lives /\ Swept /\ [Next]_vars => (TypeOK /\ Lives /\ Swept)'
  BY TypesStep, LivesStep, SweptStep
<1>3. Swept => SweptNeverLive
  BY DEF Swept, SweptNeverLive
<1> QED BY <1>1, <1>2, <1>3, PTL DEF Spec

----------------------------------------------------------------------------
(* A shell that is known to be dead is never registered *)

LEMMA HeardStep ==
    ASSUME Cardinality(Starts) <= EarlyLimit
    PROVE  TypeOK /\ Lives /\ Heard /\ [Next]_vars => Heard'
<1> SUFFICES ASSUME TypeOK, Lives, Heard, [Next]_vars PROVE Heard'
  OBVIOUS
<1>0. /\ \A s \in Starts : Life(s)
      /\ pc \in [Starts -> {"idle", "asked", "captured", "reserved", "spawned", "ok",
                            "refused", "done"}]
      /\ proc \in [Starts -> {"none", "up", "exited", "told", "gone"}]
      /\ live \subseteq Starts /\ pending \subseteq Starts /\ early \subseteq Starts
  BY DEF Lives, TypeOK
<1> USE DEF Heard, Life
<1>1. ASSUME NEW f \in Folders, OpenProject(f), cap' = cap PROVE Heard'
  BY <1>1, <1>0 DEF OpenProject, frontVars, askedVars, startVars, registryVars, processVars
<1>2. CASE ToLauncher /\ cap' = cap
  BY <1>2, <1>0 DEF ToLauncher, frontVars, askedVars, startVars, registryVars, processVars
<1>3. CASE CloseProject /\ cap' = cap
  BY <1>3, <1>0 DEF CloseProject, frontVars, askedVars, startVars, registryVars, processVars
<1>4. CASE EndAll /\ cap' = cap
  BY <1>4, <1>0 DEF EndAll, Sweep, Tear, frontVars, askedVars, startVars, registryVars, processVars
<1>5. ASSUME NEW t \in Starts, StartSession(t), cap' = cap PROVE Heard'
  BY <1>5, <1>0 DEF StartSession, frontVars, askedVars, startVars, registryVars, processVars
<1>6. ASSUME NEW t \in Starts, EndSession(t), cap' = cap PROVE Heard'
  BY <1>6, <1>0 DEF EndSession, frontVars, askedVars, startVars, registryVars, processVars
<1>7. ASSUME NEW t \in Starts, HearStart(t), cap' = cap PROVE Heard'
  BY <1>7, <1>0 DEF HearStart, frontVars, askedVars, startVars, registryVars, processVars
<1>8. ASSUME NEW t \in Starts, Capture(t), cap' = cap PROVE Heard'
  BY <1>8, <1>0 DEF Capture, frontVars, askedVars, startVars, registryVars, processVars
<1>9. ASSUME NEW t \in Starts, Reserve(t), cap' = cap PROVE Heard'
  BY <1>9, <1>0 DEF Reserve, frontVars, askedVars, startVars, registryVars, processVars
<1>10. ASSUME NEW t \in Starts, Spawn(t), cap' = cap PROVE Heard'
  BY <1>10, <1>0 DEF Spawn, frontVars, askedVars, startVars, registryVars, processVars
<1>11. ASSUME NEW t \in Starts, SpawnFails(t), cap' = cap PROVE Heard'
  BY <1>11, <1>0 DEF SpawnFails, frontVars, askedVars, startVars, registryVars, processVars
<1>12. ASSUME NEW t \in Starts, Register(t), cap' = cap PROVE Heard'
  BY <1>12, <1>0 DEF Register, Tear, frontVars, askedVars, startVars, registryVars, processVars, ExitedEarly
<1>13. ASSUME NEW t \in Starts, EndOne(t), cap' = cap PROVE Heard'
  BY <1>13, <1>0 DEF EndOne, Tear, frontVars, askedVars, startVars, registryVars, processVars
<1>14. ASSUME NEW t \in Starts, EndFinishes(t), cap' = cap PROVE Heard'
  BY <1>14, <1>0 DEF EndFinishes, frontVars, askedVars, startVars, registryVars, processVars
<1>15. ASSUME NEW t \in Starts, ShellExits(t), cap' = cap PROVE Heard'
  BY <1>15, <1>0 DEF ShellExits, frontVars, askedVars, startVars, registryVars, processVars
<1>16. ASSUME NEW t \in Starts, SelfExit(t), cap' = cap PROVE Heard'
  <2>1. early \in SUBSET (Starts \ {t})
    BY <1>16, <1>0 DEF SelfExit
  <2>2. IsFiniteSet(Starts) /\ IsFiniteSet(Starts \ {t})
    BY Sets
  <2>3. Cardinality(Starts \ {t}) = Cardinality(Starts) - 1
    BY <1>16, <2>2, FS_RemoveElement
  <2>4. Cardinality(early) <= Cardinality(Starts \ {t})
    BY <2>1, <2>2, FS_Subset
  <2>5. early' \subseteq early \cup {t} /\ (t \notin live => early' = early \cup {t})
    BY <1>16, <2>3, <2>4, Sets, TerminalAssumption, <1>0 DEF SelfExit, TerminalAssumption
  <2> QED BY <1>16, <1>0, <2>5 DEF SelfExit, Tear, startVars
<1>17. ASSUME NEW p \in backstop, EndProject(p), cap' = cap PROVE Heard'
  BY <1>17, <1>0 DEF EndProject, Sweep, Tear, frontVars, askedVars, startVars, registryVars, processVars
<1>18. CASE PageLoads /\ cap' = cap
  BY <1>18, <1>0 DEF PageLoads, frontVars, askedVars, startVars, registryVars, processVars
<1>19. CASE PageSweeps /\ cap' = cap
  BY <1>19, <1>0 DEF PageSweeps, Sweep, Tear, frontVars, askedVars, startVars, registryVars, processVars
<1>20. CASE Quit /\ cap' = cap
  BY <1>20, <1>0 DEF Quit, frontVars, askedVars, startVars, registryVars, processVars
<1>21. CASE QuitSweeps /\ cap' = cap
  BY <1>21, <1>0 DEF QuitSweeps, Sweep, Tear, frontVars, askedVars, startVars, registryVars, processVars
<1>22. CASE QuitReturns /\ cap' = cap
  BY <1>22, <1>0 DEF QuitReturns, frontVars, askedVars, startVars, registryVars, processVars
<1>23. CASE UNCHANGED vars
  BY <1>23, <1>0 DEF vars, frontVars, askedVars, startVars, registryVars, processVars
<1> QED BY <1>1, <1>2, <1>3, <1>4, <1>5, <1>6, <1>7, <1>8, <1>9, <1>10, <1>11, <1>12, <1>13, <1>14, <1>15, <1>16, <1>17, <1>18, <1>19, <1>20, <1>21, <1>22, <1>23 DEF Next

(* While no more sessions start than EARLY_EXIT_LIMIT exits are remembered, a shell
   whose exit the registry was told of is not live.                               *)
THEOREM DeadStaysOut ==
    ASSUME Cardinality(Starts) <= EarlyLimit PROVE Spec => []DeadNeverLive
<1>1. Init => TypeOK /\ Lives /\ Heard
  BY InitTypes DEF Init, Lives, Life, Heard
<1>2. TypeOK /\ Lives /\ Heard /\ [Next]_vars => (TypeOK /\ Lives /\ Heard)'
  BY TypesStep, LivesStep, HeardStep
<1>3. Heard => DeadNeverLive
  BY DEF Heard, DeadNeverLive
<1> QED BY <1>1, <1>2, <1>3, PTL DEF Spec

----------------------------------------------------------------------------
(* The count of teardowns, and the quit *)

LEMMA TearCounts ==
    ASSUME TypeOK, Counted, NEW S \in SUBSET Starts, S \cap tearing = {}, Tear(S)
    PROVE  Counted'
<1>1. IsFiniteSet(S) /\ IsFiniteSet(tearing)
  BY Sets DEF TypeOK
<1>2. Cardinality(tearing \cup S) = Cardinality(tearing) + Cardinality(S) - Cardinality(tearing \cap S)
  BY <1>1, FS_Union
<1>3. Cardinality(tearing \cap S) = 0 /\ Cardinality(S) \in Nat /\ Cardinality(tearing) \in Nat
  BY <1>1, FS_EmptySet, FS_CardinalityType
<1> QED BY <1>2, <1>3 DEF Counted, Tear

LEMMA CountedStep == TypeOK /\ Lives /\ Counted /\ [Next]_vars => Counted'
<1> SUFFICES ASSUME TypeOK, Lives, Counted, [Next]_vars PROVE Counted'
  OBVIOUS
<1>00. TypeOK /\ Counted
  OBVIOUS
<1>0. \A s \in Starts : s \in live \/ pc[s] = "spawned" => s \notin tearing
  BY DEF Lives, Life
<1> USE DEF Counted
<1>1. ASSUME NEW f \in Folders, OpenProject(f), cap' = cap PROVE Counted'
  BY <1>1 DEF OpenProject, frontVars, askedVars, startVars, registryVars, processVars
<1>2. CASE ToLauncher /\ cap' = cap
  BY <1>2 DEF ToLauncher, frontVars, askedVars, startVars, registryVars, processVars
<1>3. CASE CloseProject /\ cap' = cap
  BY <1>3 DEF CloseProject, frontVars, askedVars, startVars, registryVars, processVars
<1>4. CASE EndAll /\ cap' = cap
  <2>1. live \cap Starts \subseteq Starts /\ (live \cap Starts) \cap tearing = {}
    BY <1>4, <1>0 DEF TypeOK
  <2>2. Tear(live \cap Starts)
    BY <1>4 DEF EndAll, Sweep
  <2> QED BY <2>1, <2>2, <1>00, TearCounts
<1>5. ASSUME NEW t \in Starts, StartSession(t), cap' = cap PROVE Counted'
  BY <1>5 DEF StartSession, frontVars, askedVars, startVars, registryVars, processVars
<1>6. ASSUME NEW t \in Starts, EndSession(t), cap' = cap PROVE Counted'
  BY <1>6 DEF EndSession, frontVars, askedVars, startVars, registryVars, processVars
<1>7. ASSUME NEW t \in Starts, HearStart(t), cap' = cap PROVE Counted'
  BY <1>7 DEF HearStart, frontVars, askedVars, startVars, registryVars, processVars
<1>8. ASSUME NEW t \in Starts, Capture(t), cap' = cap PROVE Counted'
  BY <1>8 DEF Capture, frontVars, askedVars, startVars, registryVars, processVars
<1>9. ASSUME NEW t \in Starts, Reserve(t), cap' = cap PROVE Counted'
  BY <1>9 DEF Reserve, frontVars, askedVars, startVars, registryVars, processVars
<1>10. ASSUME NEW t \in Starts, Spawn(t), cap' = cap PROVE Counted'
  BY <1>10 DEF Spawn, frontVars, askedVars, startVars, registryVars, processVars
<1>11. ASSUME NEW t \in Starts, SpawnFails(t), cap' = cap PROVE Counted'
  BY <1>11 DEF SpawnFails, frontVars, askedVars, startVars, registryVars, processVars
<1>12. ASSUME NEW t \in Starts, Register(t), cap' = cap PROVE Counted'
  <2>1. t \notin tearing
    BY <1>12, <1>0 DEF Register
  <2>2. CASE Unwanted(t) \/ ExitedEarly(t)
    BY <1>12, <2>1, <2>2, <1>00, TearCounts DEF Register
  <2>3. CASE ~(Unwanted(t) \/ ExitedEarly(t))
    BY <1>12, <2>3, <1>00 DEF Register
  <2> QED BY <2>2, <2>3
<1>13. ASSUME NEW t \in Starts, EndOne(t), cap' = cap PROVE Counted'
  <2>1. live \cap {t} \subseteq Starts /\ (live \cap {t}) \cap tearing = {}
    BY <1>13, <1>0 DEF TypeOK
  <2>2. Tear(live \cap {t})
    BY <1>13 DEF EndOne
  <2> QED BY <2>1, <2>2, <1>00, TearCounts
<1>14. ASSUME NEW t \in Starts, EndFinishes(t), cap' = cap PROVE Counted'
  <2>1. Cardinality(tearing \ {t}) = Cardinality(tearing) - 1
    BY <1>14, Sets, FS_RemoveElement DEF EndFinishes, TypeOK
  <2> QED BY <1>14, <2>1 DEF EndFinishes
<1>15. ASSUME NEW t \in Starts, ShellExits(t), cap' = cap PROVE Counted'
  BY <1>15 DEF ShellExits, frontVars, askedVars, startVars, registryVars, processVars
<1>16. ASSUME NEW t \in Starts, SelfExit(t), cap' = cap PROVE Counted'
  <2>1. live \cap {t} \subseteq Starts /\ (live \cap {t}) \cap tearing = {}
    BY <1>16, <1>0 DEF TypeOK
  <2>2. Tear(live \cap {t})
    BY <1>16 DEF SelfExit
  <2> QED BY <2>1, <2>2, <1>00, TearCounts
<1>17. ASSUME NEW p \in backstop, EndProject(p), cap' = cap PROVE Counted'
  <2>1. live \cap InProject(live \cup pending, p) \subseteq Starts /\ (live \cap InProject(live \cup pending, p)) \cap tearing = {}
    BY <1>17, <1>0 DEF TypeOK
  <2>2. Tear(live \cap InProject(live \cup pending, p))
    BY <1>17 DEF EndProject, Sweep
  <2> QED BY <2>1, <2>2, <1>00, TearCounts
<1>18. CASE PageLoads /\ cap' = cap
  BY <1>18 DEF PageLoads, frontVars, askedVars, startVars, registryVars, processVars
<1>19. CASE PageSweeps /\ cap' = cap
  <2>1. live \cap Starts \subseteq Starts /\ (live \cap Starts) \cap tearing = {}
    BY <1>19, <1>0 DEF TypeOK
  <2>2. Tear(live \cap Starts)
    BY <1>19 DEF PageSweeps, Sweep
  <2> QED BY <2>1, <2>2, <1>00, TearCounts
<1>20. CASE Quit /\ cap' = cap
  BY <1>20 DEF Quit, frontVars, askedVars, startVars, registryVars, processVars
<1>21. CASE QuitSweeps /\ cap' = cap
  <2>1. live \cap Starts \subseteq Starts /\ (live \cap Starts) \cap tearing = {}
    BY <1>21, <1>0 DEF TypeOK
  <2>2. Tear(live \cap Starts)
    BY <1>21 DEF QuitSweeps, Sweep
  <2> QED BY <2>1, <2>2, <1>00, TearCounts
<1>22. CASE QuitReturns /\ cap' = cap
  BY <1>22 DEF QuitReturns, frontVars, askedVars, startVars, registryVars, processVars
<1>23. CASE UNCHANGED vars
  BY <1>23 DEF vars, frontVars, askedVars, startVars, registryVars, processVars
<1> QED BY <1>1, <1>2, <1>3, <1>4, <1>5, <1>6, <1>7, <1>8, <1>9, <1>10, <1>11, <1>12, <1>13, <1>14, <1>15, <1>16, <1>17, <1>18, <1>19, <1>20, <1>21, <1>22, <1>23 DEF Next

LEMMA QuitStep == TypeOK /\ Lives /\ Counted /\ QuitHolds /\ [Next]_vars => QuitHolds'
<1> SUFFICES ASSUME TypeOK, Lives, Counted, QuitHolds, [Next]_vars PROVE QuitHolds'
  OBVIOUS
<1>0. live \subseteq Starts /\ main \in {"idle", "loading", "quitting", "waiting", "left"}
  BY DEF TypeOK
<1> USE DEF QuitHolds, Running, FrontendRuns
<1>1. ASSUME NEW f \in Folders, OpenProject(f), cap' = cap PROVE QuitHolds'
  BY <1>1, <1>0 DEF OpenProject, frontVars, askedVars, startVars, registryVars, processVars
<1>2. CASE ToLauncher /\ cap' = cap
  BY <1>2, <1>0 DEF ToLauncher, frontVars, askedVars, startVars, registryVars, processVars
<1>3. CASE CloseProject /\ cap' = cap
  BY <1>3, <1>0 DEF CloseProject, frontVars, askedVars, startVars, registryVars, processVars
<1>4. CASE EndAll /\ cap' = cap
  BY <1>4, <1>0 DEF EndAll, Sweep, Tear, frontVars, askedVars, startVars, registryVars, processVars
<1>5. ASSUME NEW t \in Starts, StartSession(t), cap' = cap PROVE QuitHolds'
  BY <1>5, <1>0 DEF StartSession, frontVars, askedVars, startVars, registryVars, processVars
<1>6. ASSUME NEW t \in Starts, EndSession(t), cap' = cap PROVE QuitHolds'
  BY <1>6, <1>0 DEF EndSession, frontVars, askedVars, startVars, registryVars, processVars
<1>7. ASSUME NEW t \in Starts, HearStart(t), cap' = cap PROVE QuitHolds'
  BY <1>7, <1>0 DEF HearStart, frontVars, askedVars, startVars, registryVars, processVars
<1>8. ASSUME NEW t \in Starts, Capture(t), cap' = cap PROVE QuitHolds'
  BY <1>8, <1>0 DEF Capture, frontVars, askedVars, startVars, registryVars, processVars
<1>9. ASSUME NEW t \in Starts, Reserve(t), cap' = cap PROVE QuitHolds'
  BY <1>9, <1>0 DEF Reserve, frontVars, askedVars, startVars, registryVars, processVars
<1>10. ASSUME NEW t \in Starts, Spawn(t), cap' = cap PROVE QuitHolds'
  BY <1>10, <1>0 DEF Spawn, frontVars, askedVars, startVars, registryVars, processVars
<1>11. ASSUME NEW t \in Starts, SpawnFails(t), cap' = cap PROVE QuitHolds'
  BY <1>11, <1>0 DEF SpawnFails, frontVars, askedVars, startVars, registryVars, processVars
<1>12. ASSUME NEW t \in Starts, Register(t), cap' = cap PROVE QuitHolds'
  BY <1>12, <1>0 DEF Register, Tear, frontVars, askedVars, startVars, registryVars, processVars, Unwanted, quitting
<1>13. ASSUME NEW t \in Starts, EndOne(t), cap' = cap PROVE QuitHolds'
  BY <1>13, <1>0 DEF EndOne, Tear, frontVars, askedVars, startVars, registryVars, processVars
<1>14. ASSUME NEW t \in Starts, EndFinishes(t), cap' = cap PROVE QuitHolds'
  BY <1>14, <1>0 DEF EndFinishes, frontVars, askedVars, startVars, registryVars, processVars
<1>15. ASSUME NEW t \in Starts, ShellExits(t), cap' = cap PROVE QuitHolds'
  BY <1>15, <1>0 DEF ShellExits, frontVars, askedVars, startVars, registryVars, processVars
<1>16. ASSUME NEW t \in Starts, SelfExit(t), cap' = cap PROVE QuitHolds'
  BY <1>16, <1>0 DEF SelfExit, Tear, frontVars, askedVars, startVars, registryVars, processVars
<1>17. ASSUME NEW p \in backstop, EndProject(p), cap' = cap PROVE QuitHolds'
  BY <1>17, <1>0 DEF EndProject, Sweep, Tear, frontVars, askedVars, startVars, registryVars, processVars, InProject
<1>18. CASE PageLoads /\ cap' = cap
  BY <1>18, <1>0 DEF PageLoads, frontVars, askedVars, startVars, registryVars, processVars
<1>19. CASE PageSweeps /\ cap' = cap
  BY <1>19, <1>0 DEF PageSweeps, Sweep, Tear, frontVars, askedVars, startVars, registryVars, processVars
<1>20. CASE Quit /\ cap' = cap
  BY <1>20, <1>0 DEF Quit, frontVars, askedVars, startVars, registryVars, processVars
<1>21. CASE QuitSweeps /\ cap' = cap
  BY <1>21, <1>0 DEF QuitSweeps, Sweep, Tear, frontVars, askedVars, startVars, registryVars, processVars
<1>22. CASE QuitReturns /\ cap' = cap
  <2>1. tearing = {} /\ pending = {}
    BY <1>22, Sets, FS_EmptySet DEF QuitReturns, Settled, Counted, TypeOK
  <2> QED BY <1>22, <2>1 DEF QuitReturns, processVars
<1>23. CASE UNCHANGED vars
  BY <1>23, <1>0 DEF vars, frontVars, askedVars, startVars, registryVars, processVars
<1> QED BY <1>1, <1>2, <1>3, <1>4, <1>5, <1>6, <1>7, <1>8, <1>9, <1>10, <1>11, <1>12, <1>13, <1>14, <1>15, <1>16, <1>17, <1>18, <1>19, <1>20, <1>21, <1>22, <1>23 DEF Next

(* A quit that returns before its deadline leaves no shell behind, also those that were
   being spawned when it began.                                                   *)
THEOREM QuitLeavesNoShell == Spec => []QuitLeavesNothing
<1> DEFINE IInv == TypeOK /\ Lives /\ Counted /\ QuitHolds
<1>1. Init => IInv
  BY InitTypes, FS_EmptySet DEF Init, Lives, Life, Counted, QuitHolds
<1>2. IInv /\ [Next]_vars => IInv'
  BY TypesStep, LivesStep, CountedStep, QuitStep
<1>3. IInv => QuitLeavesNothing
  BY DEF Lives, Life, QuitHolds, QuitLeavesNothing, TypeOK
<1> QED BY <1>1, <1>2, <1>3, PTL DEF Spec

----------------------------------------------------------------------------
(* The caps *)

LEMMA PairBound ==
    ASSUME NEW A, NEW B, IsFiniteSet(A), IsFiniteSet(B)
    PROVE  IsFiniteSet(A \cup B) /\ Cardinality(A \cup B) <= Cardinality(A) + Cardinality(B)
<1>1. /\ IsFiniteSet(A \cup B)
      /\ Cardinality(A \cup B) = Cardinality(A) + Cardinality(B) - Cardinality(A \cap B)
  BY FS_Union
<1>2. IsFiniteSet(A \cap B)
  BY FS_Intersection
<1>3. Cardinality(A) \in Nat /\ Cardinality(B) \in Nat /\ Cardinality(A \cap B) \in Nat
  BY <1>2, FS_CardinalityType
<1> QED BY <1>1, <1>3

(* One more fits below a limit that is not reached. *)
LEMMA RoomForOne ==
    ASSUME NEW A \in SUBSET Starts, NEW B \in SUBSET Starts, NEW x, NEW m \in Nat,
           Cardinality(A) + Cardinality(B) < m
    PROVE  Cardinality(A \cup B \cup {x}) <= m
<1>1. IsFiniteSet(A \cup B) /\ Cardinality(A \cup B) <= Cardinality(A) + Cardinality(B)
  BY Sets, PairBound
<1>2. Cardinality(A) \in Nat /\ Cardinality(B) \in Nat /\ Cardinality(A \cup B) \in Nat
  BY <1>1, Sets, FS_CardinalityType
<1>3. Cardinality((A \cup B) \cup {x}) \in {Cardinality(A \cup B), Cardinality(A \cup B) + 1}
  BY <1>1, FS_AddElement
<1> QED BY <1>1, <1>2, <1>3

LEMMA RoomForOneOfThree ==
    ASSUME NEW A \in SUBSET Starts, NEW B \in SUBSET Starts, NEW C \in SUBSET Starts,
           NEW x, NEW m \in Nat, Cardinality(A) + Cardinality(B) + Cardinality(C) < m
    PROVE  Cardinality(A \cup B \cup C \cup {x}) <= m
<1>1. A \cup B \in SUBSET Starts /\ Cardinality(A \cup B) <= Cardinality(A) + Cardinality(B)
  BY Sets, PairBound
<1>2. /\ Cardinality(A) \in Nat /\ Cardinality(B) \in Nat /\ Cardinality(C) \in Nat
      /\ Cardinality(A \cup B) \in Nat
  BY <1>1, Sets
<1>3. Cardinality(A \cup B) + Cardinality(C) < m
  BY <1>1, <1>2
<1> QED BY <1>1, <1>3, RoomForOne

(* A step that takes no slot keeps within the caps. *)
LEMMA SlotsShrink ==
    ASSUME TypeOK, Slots, cap' = cap,
           (live \cup pending \cup tearing)' \subseteq live \cup pending \cup tearing,
           \A q : InProject(live \cup pending, q)' \subseteq InProject(live \cup pending, q)
    PROVE  Slots'
<1>1. cap.total \in Nat /\ cap.perProject \in Nat
  BY TerminalAssumption DEF TerminalAssumption, TypeOK
<1>2. /\ live \cup pending \cup tearing \in SUBSET Starts
      /\ \A q : InProject(live \cup pending, q) \in SUBSET Starts
  BY DEF TypeOK, InProject
<1>3. Cardinality((live \cup pending \cup tearing)') <= Cardinality(live \cup pending \cup tearing)
  BY <1>2, Sets, FS_Subset
<1>4. Cardinality((live \cup pending \cup tearing)') <= cap'.total
  <2>1. (live \cup pending \cup tearing)' \in SUBSET Starts
    BY <1>2
  <2> QED BY <1>1, <1>2, <1>3, <2>1, Sets DEF Slots
<1>5. ASSUME NEW q \in {f.project : f \in Folders}
      PROVE  Cardinality(InProject(live \cup pending, q)') <= cap'.perProject
  <2>1. /\ InProject(live \cup pending, q) \in SUBSET Starts
        /\ InProject(live \cup pending, q)' \in SUBSET InProject(live \cup pending, q)
    BY <1>2
  <2>2. Cardinality(InProject(live \cup pending, q)') <= Cardinality(InProject(live \cup pending, q))
    BY <2>1, Sets, FS_Subset
  <2>3. Cardinality(InProject(live \cup pending, q)) <= cap.perProject
    BY <1>5 DEF Slots
  <2>4. InProject(live \cup pending, q)' \in SUBSET Starts
    BY <2>1
  <2> QED BY <1>1, <2>1, <2>2, <2>3, <2>4, Sets
<1> QED BY <1>4, <1>5 DEF Slots

LEMMA SlotsStep == TypeOK /\ Lives /\ Counted /\ Slots /\ [Next]_vars => Slots'
<1> SUFFICES ASSUME TypeOK, Lives, Counted, Slots, [Next]_vars PROVE Slots'
  OBVIOUS
<1>00. TypeOK /\ Slots
  OBVIOUS
<1>0. /\ \A s \in Starts : Life(s)
      /\ live \subseteq Starts /\ pending \subseteq Starts /\ tearing \subseteq Starts
      /\ cap.total \in Nat /\ cap.perProject \in Nat /\ Counted
  BY TerminalAssumption DEF Lives, TypeOK, TerminalAssumption
<1> USE DEF Slots, Life
<1>1. ASSUME NEW f \in Folders, OpenProject(f), cap' = cap PROVE Slots'
  <2>1. (live \cup pending \cup tearing)' \subseteq live \cup pending \cup tearing
    BY <1>1, <1>0 DEF OpenProject, registryVars, processVars
  <2>2. \A q : InProject(live \cup pending, q)' \subseteq InProject(live \cup pending, q)
    BY <1>1, <1>0 DEF OpenProject, registryVars, processVars, InProject, Project, frontVars
  <2> QED BY <1>1, <1>0, <1>00, <2>1, <2>2, SlotsShrink
<1>2. CASE ToLauncher /\ cap' = cap
  <2>1. (live \cup pending \cup tearing)' \subseteq live \cup pending \cup tearing
    BY <1>2, <1>0 DEF ToLauncher, registryVars, processVars
  <2>2. \A q : InProject(live \cup pending, q)' \subseteq InProject(live \cup pending, q)
    BY <1>2, <1>0 DEF ToLauncher, registryVars, processVars, InProject, Project, frontVars
  <2> QED BY <1>2, <1>0, <1>00, <2>1, <2>2, SlotsShrink
<1>3. CASE CloseProject /\ cap' = cap
  <2>1. (live \cup pending \cup tearing)' \subseteq live \cup pending \cup tearing
    BY <1>3, <1>0 DEF CloseProject, registryVars, processVars
  <2>2. \A q : InProject(live \cup pending, q)' \subseteq InProject(live \cup pending, q)
    BY <1>3, <1>0 DEF CloseProject, registryVars, processVars, InProject, Project, frontVars
  <2> QED BY <1>3, <1>0, <1>00, <2>1, <2>2, SlotsShrink
<1>4. CASE EndAll /\ cap' = cap
  <2>1. (live \cup pending \cup tearing)' \subseteq live \cup pending \cup tearing
    BY <1>4, <1>0 DEF EndAll, Sweep, Tear
  <2>2. \A q : InProject(live \cup pending, q)' \subseteq InProject(live \cup pending, q)
    BY <1>4, <1>0 DEF EndAll, Sweep, Tear, InProject, Project, frontVars
  <2> QED BY <1>4, <1>0, <1>00, <2>1, <2>2, SlotsShrink
<1>5. ASSUME NEW t \in Starts, StartSession(t), cap' = cap PROVE Slots'
  <2>1. (live \cup pending \cup tearing)' \subseteq live \cup pending \cup tearing
    BY <1>5, <1>0 DEF StartSession, registryVars, processVars
  <2>2. \A q : InProject(live \cup pending, q)' \subseteq InProject(live \cup pending, q)
    BY <1>5, <1>0 DEF StartSession, registryVars, processVars, InProject, Project, frontVars
  <2> QED BY <1>5, <1>0, <1>00, <2>1, <2>2, SlotsShrink
<1>6. ASSUME NEW t \in Starts, EndSession(t), cap' = cap PROVE Slots'
  <2>1. (live \cup pending \cup tearing)' \subseteq live \cup pending \cup tearing
    BY <1>6, <1>0 DEF EndSession, registryVars, processVars
  <2>2. \A q : InProject(live \cup pending, q)' \subseteq InProject(live \cup pending, q)
    BY <1>6, <1>0 DEF EndSession, registryVars, processVars, InProject, Project, frontVars
  <2> QED BY <1>6, <1>0, <1>00, <2>1, <2>2, SlotsShrink
<1>7. ASSUME NEW t \in Starts, HearStart(t), cap' = cap PROVE Slots'
  <2>1. (live \cup pending \cup tearing)' \subseteq live \cup pending \cup tearing
    BY <1>7, <1>0 DEF HearStart, registryVars, processVars
  <2>2. \A q : InProject(live \cup pending, q)' \subseteq InProject(live \cup pending, q)
    BY <1>7, <1>0 DEF HearStart, registryVars, processVars, InProject, Project, frontVars
  <2> QED BY <1>7, <1>0, <1>00, <2>1, <2>2, SlotsShrink
<1>8. ASSUME NEW t \in Starts, Capture(t), cap' = cap PROVE Slots'
  <2>1. (live \cup pending \cup tearing)' \subseteq live \cup pending \cup tearing
    BY <1>8, <1>0 DEF Capture, registryVars, processVars
  <2>2. \A q : InProject(live \cup pending, q)' \subseteq InProject(live \cup pending, q)
    BY <1>8, <1>0 DEF Capture, registryVars, processVars, InProject, Project, frontVars
  <2> QED BY <1>8, <1>0, <1>00, <2>1, <2>2, SlotsShrink
<1>9. ASSUME NEW t \in Starts, Reserve(t), cap' = cap PROVE Slots'
  <2>1. CASE Refused(t)
    BY <1>9, <2>1, <1>0 DEF Reserve, InProject, Project, frontVars, processVars
  <2>2. CASE ~Refused(t)
    <3>1. /\ live' = live /\ tearing' = tearing /\ pending' = pending \cup {t} /\ ask' = ask
          /\ pc[t] = "captured"
      BY <1>9, <2>2 DEF Reserve, frontVars, processVars
    <3>2. /\ Cardinality(InProject(live, Project(t))) + Cardinality(InProject(pending, Project(t)))
                 < cap.perProject
          /\ Cardinality(live) + Cardinality(pending) + Cardinality(tearing) < cap.total
      <4>1. /\ InProject(live, Project(t)) \in SUBSET Starts /\ live \in SUBSET Starts
            /\ InProject(pending, Project(t)) \in SUBSET Starts /\ pending \in SUBSET Starts
            /\ tearing \in SUBSET Starts
        BY <1>00 DEF TypeOK, InProject
      <4> QED BY <4>1, <2>2, <1>0, Sets DEF Refused, Full, Counted
    <3>3. Cardinality((live \cup pending \cup tearing)') <= cap'.total
      <4>1. (live \cup pending \cup tearing)' = live \cup pending \cup tearing \cup {t}
        BY <3>1
      <4>2. Cardinality(live \cup pending \cup tearing \cup {t}) <= cap.total
        BY <3>2, <1>0, RoomForOneOfThree
      <4> QED BY <1>9, <4>1, <4>2
    <3>4. ASSUME NEW q \in {f.project : f \in Folders}
          PROVE  Cardinality(InProject(live \cup pending, q)') <= cap'.perProject
      <4>1. CASE q = Project(t)
        <5> DEFINE A == InProject(live, Project(t))
                   B == InProject(pending, Project(t))
        <5>1. InProject(live \cup pending, q)' = A \cup B \cup {t}
          BY <3>1, <4>1 DEF InProject, Project
        <5>2. A \in SUBSET Starts /\ B \in SUBSET Starts
          BY <1>0 DEF InProject
        <5>3. Cardinality(A \cup B \cup {t}) <= cap.perProject
          BY <3>2, <5>2, <1>0, RoomForOne
        <5> QED BY <1>9, <5>1, <5>3
      <4>2. CASE q # Project(t)
        <5>1. InProject(live \cup pending, q)' = InProject(live \cup pending, q)
          BY <3>1, <4>2 DEF InProject, Project
        <5> QED BY <1>9, <3>4, <5>1 DEF Slots
      <4> QED BY <4>1, <4>2
    <3> QED BY <3>3, <3>4 DEF Slots
  <2> QED BY <2>1, <2>2
<1>10. ASSUME NEW t \in Starts, Spawn(t), cap' = cap PROVE Slots'
  <2>1. (live \cup pending \cup tearing)' \subseteq live \cup pending \cup tearing
    BY <1>10, <1>0 DEF Spawn, registryVars
  <2>2. \A q : InProject(live \cup pending, q)' \subseteq InProject(live \cup pending, q)
    BY <1>10, <1>0 DEF Spawn, registryVars, InProject, Project, frontVars
  <2> QED BY <1>10, <1>0, <1>00, <2>1, <2>2, SlotsShrink
<1>11. ASSUME NEW t \in Starts, SpawnFails(t), cap' = cap PROVE Slots'
  <2>1. (live \cup pending \cup tearing)' \subseteq live \cup pending \cup tearing
    BY <1>11, <1>0 DEF SpawnFails, processVars
  <2>2. \A q : InProject(live \cup pending, q)' \subseteq InProject(live \cup pending, q)
    BY <1>11, <1>0 DEF SpawnFails, processVars, InProject, Project, frontVars
  <2> QED BY <1>11, <1>0, <1>00, <2>1, <2>2, SlotsShrink
<1>12. ASSUME NEW t \in Starts, Register(t), cap' = cap PROVE Slots'
  <2>1. (live \cup pending \cup tearing)' \subseteq live \cup pending \cup tearing
    BY <1>12, <1>0 DEF Register, Tear
  <2>2. \A q : InProject(live \cup pending, q)' \subseteq InProject(live \cup pending, q)
    BY <1>12, <1>0 DEF Register, Tear, InProject, Project, frontVars
  <2> QED BY <1>12, <1>0, <1>00, <2>1, <2>2, SlotsShrink
<1>13. ASSUME NEW t \in Starts, EndOne(t), cap' = cap PROVE Slots'
  <2>1. (live \cup pending \cup tearing)' \subseteq live \cup pending \cup tearing
    BY <1>13, <1>0 DEF EndOne, Tear
  <2>2. \A q : InProject(live \cup pending, q)' \subseteq InProject(live \cup pending, q)
    BY <1>13, <1>0 DEF EndOne, Tear, InProject, Project, frontVars
  <2> QED BY <1>13, <1>0, <1>00, <2>1, <2>2, SlotsShrink
<1>14. ASSUME NEW t \in Starts, EndFinishes(t), cap' = cap PROVE Slots'
  <2>1. (live \cup pending \cup tearing)' \subseteq live \cup pending \cup tearing
    BY <1>14, <1>0 DEF EndFinishes
  <2>2. \A q : InProject(live \cup pending, q)' \subseteq InProject(live \cup pending, q)
    BY <1>14, <1>0 DEF EndFinishes, InProject, Project, frontVars
  <2> QED BY <1>14, <1>0, <1>00, <2>1, <2>2, SlotsShrink
<1>15. ASSUME NEW t \in Starts, ShellExits(t), cap' = cap PROVE Slots'
  <2>1. (live \cup pending \cup tearing)' \subseteq live \cup pending \cup tearing
    BY <1>15, <1>0 DEF ShellExits, registryVars
  <2>2. \A q : InProject(live \cup pending, q)' \subseteq InProject(live \cup pending, q)
    BY <1>15, <1>0 DEF ShellExits, registryVars, InProject, Project, frontVars
  <2> QED BY <1>15, <1>0, <1>00, <2>1, <2>2, SlotsShrink
<1>16. ASSUME NEW t \in Starts, SelfExit(t), cap' = cap PROVE Slots'
  <2>1. (live \cup pending \cup tearing)' \subseteq live \cup pending \cup tearing
    BY <1>16, <1>0 DEF SelfExit, Tear
  <2>2. \A q : InProject(live \cup pending, q)' \subseteq InProject(live \cup pending, q)
    BY <1>16, <1>0 DEF SelfExit, Tear, InProject, Project, frontVars
  <2> QED BY <1>16, <1>0, <1>00, <2>1, <2>2, SlotsShrink
<1>17. ASSUME NEW p \in backstop, EndProject(p), cap' = cap PROVE Slots'
  <2>1. (live \cup pending \cup tearing)' \subseteq live \cup pending \cup tearing
    BY <1>17, <1>0 DEF EndProject, Sweep, Tear
  <2>2. \A q : InProject(live \cup pending, q)' \subseteq InProject(live \cup pending, q)
    BY <1>17, <1>0 DEF EndProject, Sweep, Tear, InProject, Project, frontVars
  <2> QED BY <1>17, <1>0, <1>00, <2>1, <2>2, SlotsShrink
<1>18. CASE PageLoads /\ cap' = cap
  <2>1. (live \cup pending \cup tearing)' \subseteq live \cup pending \cup tearing
    BY <1>18, <1>0 DEF PageLoads, processVars
  <2>2. \A q : InProject(live \cup pending, q)' \subseteq InProject(live \cup pending, q)
    BY <1>18, <1>0 DEF PageLoads, processVars, InProject, Project, frontVars
  <2> QED BY <1>18, <1>0, <1>00, <2>1, <2>2, SlotsShrink
<1>19. CASE PageSweeps /\ cap' = cap
  <2>1. (live \cup pending \cup tearing)' \subseteq live \cup pending \cup tearing
    BY <1>19, <1>0 DEF PageSweeps, Sweep, Tear
  <2>2. \A q : InProject(live \cup pending, q)' \subseteq InProject(live \cup pending, q)
    BY <1>19, <1>0 DEF PageSweeps, Sweep, Tear, InProject, Project, frontVars
  <2> QED BY <1>19, <1>0, <1>00, <2>1, <2>2, SlotsShrink
<1>20. CASE Quit /\ cap' = cap
  <2>1. (live \cup pending \cup tearing)' \subseteq live \cup pending \cup tearing
    BY <1>20, <1>0 DEF Quit, processVars
  <2>2. \A q : InProject(live \cup pending, q)' \subseteq InProject(live \cup pending, q)
    BY <1>20, <1>0 DEF Quit, processVars, InProject, Project, frontVars
  <2> QED BY <1>20, <1>0, <1>00, <2>1, <2>2, SlotsShrink
<1>21. CASE QuitSweeps /\ cap' = cap
  <2>1. (live \cup pending \cup tearing)' \subseteq live \cup pending \cup tearing
    BY <1>21, <1>0 DEF QuitSweeps, Sweep, Tear
  <2>2. \A q : InProject(live \cup pending, q)' \subseteq InProject(live \cup pending, q)
    BY <1>21, <1>0 DEF QuitSweeps, Sweep, Tear, InProject, Project, frontVars
  <2> QED BY <1>21, <1>0, <1>00, <2>1, <2>2, SlotsShrink
<1>22. CASE QuitReturns /\ cap' = cap
  <2>1. (live \cup pending \cup tearing)' \subseteq live \cup pending \cup tearing
    BY <1>22, <1>0 DEF QuitReturns, processVars
  <2>2. \A q : InProject(live \cup pending, q)' \subseteq InProject(live \cup pending, q)
    BY <1>22, <1>0 DEF QuitReturns, processVars, InProject, Project, frontVars
  <2> QED BY <1>22, <1>0, <1>00, <2>1, <2>2, SlotsShrink
<1>23. CASE UNCHANGED vars
  BY <1>23, <1>0 DEF vars, InProject, Project, frontVars, askedVars, startVars, registryVars, processVars
<1> QED BY <1>1, <1>2, <1>3, <1>4, <1>5, <1>6, <1>7, <1>8, <1>9, <1>10, <1>11, <1>12, <1>13, <1>14, <1>15, <1>16, <1>17, <1>18, <1>19, <1>20, <1>21, <1>22, <1>23 DEF Next

(* What holds a slot stays within both caps: shells that exist, are being spawned or are
   being ended.                                                                   *)
THEOREM CapsAlwaysHold == Spec => []CapsHold
<1> DEFINE IInv == TypeOK /\ Lives /\ Counted /\ Slots
<1>1. Init => IInv
  <2> SUFFICES ASSUME Init PROVE IInv
    OBVIOUS
  <2>1. TypeOK /\ Lives /\ Counted
    BY InitTypes, FS_EmptySet DEF Init, Lives, Life, Counted
  <2>2. live \cup pending \cup tearing = {} /\ \A q : InProject(live \cup pending, q) = {}
    BY DEF Init, InProject
  <2>3. cap.total \in Nat /\ cap.perProject \in Nat
    BY TerminalAssumption DEF TerminalAssumption, Init
  <2> QED BY <2>1, <2>2, <2>3, FS_EmptySet DEF Slots
<1>2. IInv /\ [Next]_vars => IInv'
  BY TypesStep, LivesStep, CountedStep, SlotsStep
<1>3. IInv => CapsHold
  <2> SUFFICES ASSUME IInv PROVE CapsHold
    OBVIOUS
  <2>1. {s \in Starts : Holds(s)} \in SUBSET (live \cup pending \cup tearing)
    BY DEF Lives, Life, Holds
  <2>2. \A q : {s \in Starts \ tearing : Holds(s) /\ Project(s) = q}
                   \in SUBSET InProject(live \cup pending, q)
    BY DEF Lives, Life, Holds, InProject
  <2>3. /\ live \cup pending \cup tearing \in SUBSET Starts
        /\ \A q : InProject(live \cup pending, q) \in SUBSET Starts
        /\ cap.total \in Nat /\ cap.perProject \in Nat
    BY TerminalAssumption DEF TerminalAssumption, TypeOK, InProject
  <2>4. Cardinality({s \in Starts : Holds(s)}) <= cap.total
    <3>1. Cardinality({s \in Starts : Holds(s)}) <= Cardinality(live \cup pending \cup tearing)
      BY <2>1, <2>3, Sets, FS_Subset
    <3>2. {s \in Starts : Holds(s)} \in SUBSET Starts
      OBVIOUS
    <3> QED BY <3>1, <3>2, <2>3, Sets DEF Slots
  <2>5. ASSUME NEW q \in {f.project : f \in Folders}
        PROVE  Cardinality({s \in Starts \ tearing : Holds(s) /\ Project(s) = q}) <= cap.perProject
    <3> DEFINE U == {s \in Starts \ tearing : Holds(s) /\ Project(s) = q}
    <3>1. Cardinality(U) <= Cardinality(InProject(live \cup pending, q))
      BY <2>2, <2>3, Sets, FS_Subset
    <3>2. U \in SUBSET Starts
      OBVIOUS
    <3>3. Cardinality(InProject(live \cup pending, q)) <= cap.perProject
      BY <2>5 DEF Slots
    <3> HIDE DEF U
    <3>4. Cardinality(U) <= cap.perProject
      BY <3>1, <3>2, <3>3, <2>3, Sets
    <3> QED BY <3>4 DEF U
  <2> QED BY <2>4, <2>5 DEF CapsHold
<1> QED BY <1>1, <1>2, <1>3, PTL DEF Spec

----------------------------------------------------------------------------
(* One folder for a project *)

LEMMA HomesStep == TypeOK /\ Lives /\ Homes /\ [Next]_vars => Homes'
<1> SUFFICES ASSUME TypeOK, Lives, Homes, [Next]_vars PROVE Homes'
  OBVIOUS
<1>0. /\ \A s \in Starts : Life(s)
      /\ pc \in [Starts -> {"idle", "asked", "captured", "reserved", "spawned", "ok",
                            "refused", "done"}]
      /\ live \subseteq Starts /\ pending \subseteq Starts
      /\ ask \in [Starts -> [folder : Folders \cup {NoFolder}, page : 0..MaxPages]]
      /\ current \in Folders \cup {NoFolder} /\ page \in 0..MaxPages
      /\ seen \in [Starts -> 0..MaxPages]
  BY DEF Lives, TypeOK
<1> USE DEF Homes, Wanted, Life, Project
<1>1. ASSUME NEW f \in Folders, OpenProject(f), cap' = cap PROVE Homes'
  BY <1>1, <1>0 DEF OpenProject, frontVars, askedVars, startVars, registryVars, processVars
<1>2. CASE ToLauncher /\ cap' = cap
  BY <1>2, <1>0 DEF ToLauncher, frontVars, askedVars, startVars, registryVars, processVars
<1>3. CASE CloseProject /\ cap' = cap
  BY <1>3, <1>0 DEF CloseProject, frontVars, askedVars, startVars, registryVars, processVars
<1>4. CASE EndAll /\ cap' = cap
  BY <1>4, <1>0 DEF EndAll, Sweep, Tear, frontVars, askedVars, startVars, registryVars, processVars
<1>5. ASSUME NEW t \in Starts, StartSession(t), cap' = cap PROVE Homes'
  BY <1>5, <1>0 DEF StartSession, frontVars, askedVars, startVars, registryVars, processVars
<1>6. ASSUME NEW t \in Starts, EndSession(t), cap' = cap PROVE Homes'
  BY <1>6, <1>0 DEF EndSession, frontVars, askedVars, startVars, registryVars, processVars
<1>7. ASSUME NEW t \in Starts, HearStart(t), cap' = cap PROVE Homes'
  BY <1>7, <1>0 DEF HearStart, frontVars, askedVars, startVars, registryVars, processVars
<1>8. ASSUME NEW t \in Starts, Capture(t), cap' = cap PROVE Homes'
  BY <1>8, <1>0 DEF Capture, frontVars, askedVars, startVars, registryVars, processVars
<1>9. ASSUME NEW t \in Starts, Reserve(t), cap' = cap PROVE Homes'
  BY <1>9, <1>0, TerminalAssumption DEF Reserve, frontVars, askedVars, startVars, registryVars, processVars, Refused, OtherRoot, TerminalAssumption
<1>10. ASSUME NEW t \in Starts, Spawn(t), cap' = cap PROVE Homes'
  BY <1>10, <1>0 DEF Spawn, frontVars, askedVars, startVars, registryVars, processVars
<1>11. ASSUME NEW t \in Starts, SpawnFails(t), cap' = cap PROVE Homes'
  BY <1>11, <1>0 DEF SpawnFails, frontVars, askedVars, startVars, registryVars, processVars
<1>12. ASSUME NEW t \in Starts, Register(t), cap' = cap PROVE Homes'
  BY <1>12, <1>0 DEF Register, Tear, frontVars, askedVars, startVars, registryVars, processVars, Unwanted
<1>13. ASSUME NEW t \in Starts, EndOne(t), cap' = cap PROVE Homes'
  BY <1>13, <1>0 DEF EndOne, Tear, frontVars, askedVars, startVars, registryVars, processVars
<1>14. ASSUME NEW t \in Starts, EndFinishes(t), cap' = cap PROVE Homes'
  BY <1>14, <1>0 DEF EndFinishes, frontVars, askedVars, startVars, registryVars, processVars
<1>15. ASSUME NEW t \in Starts, ShellExits(t), cap' = cap PROVE Homes'
  BY <1>15, <1>0 DEF ShellExits, frontVars, askedVars, startVars, registryVars, processVars
<1>16. ASSUME NEW t \in Starts, SelfExit(t), cap' = cap PROVE Homes'
  BY <1>16, <1>0 DEF SelfExit, Tear, frontVars, askedVars, startVars, registryVars, processVars
<1>17. ASSUME NEW p \in backstop, EndProject(p), cap' = cap PROVE Homes'
  BY <1>17, <1>0 DEF EndProject, Sweep, Tear, frontVars, askedVars, startVars, registryVars, processVars
<1>18. CASE PageLoads /\ cap' = cap
  BY <1>18, <1>0 DEF PageLoads, frontVars, askedVars, startVars, registryVars, processVars
<1>19. CASE PageSweeps /\ cap' = cap
  BY <1>19, <1>0 DEF PageSweeps, Sweep, Tear, frontVars, askedVars, startVars, registryVars, processVars
<1>20. CASE Quit /\ cap' = cap
  BY <1>20, <1>0 DEF Quit, frontVars, askedVars, startVars, registryVars, processVars
<1>21. CASE QuitSweeps /\ cap' = cap
  BY <1>21, <1>0 DEF QuitSweeps, Sweep, Tear, frontVars, askedVars, startVars, registryVars, processVars
<1>22. CASE QuitReturns /\ cap' = cap
  BY <1>22, <1>0 DEF QuitReturns, frontVars, askedVars, startVars, registryVars, processVars
<1>23. CASE UNCHANGED vars
  BY <1>23, <1>0 DEF vars, frontVars, askedVars, startVars, registryVars, processVars
<1> QED BY <1>1, <1>2, <1>3, <1>4, <1>5, <1>6, <1>7, <1>8, <1>9, <1>10, <1>11, <1>12, <1>13, <1>14, <1>15, <1>16, <1>17, <1>18, <1>19, <1>20, <1>21, <1>22, <1>23 DEF Next

(* The live sessions of a project run in one folder, however its folder changed while
   others were starting.                                                          *)
THEOREM SessionsShareFolder == Spec => []OneFolder
<1>1. Init => TypeOK /\ Lives /\ Homes
  BY InitTypes DEF Init, Lives, Life, Homes, Wanted
<1>2. TypeOK /\ Lives /\ Homes /\ [Next]_vars => (TypeOK /\ Lives /\ Homes)'
  BY TypesStep, LivesStep, HomesStep
<1>3. Homes => OneFolder
  BY DEF Homes, Wanted, OneFolder
<1> QED BY <1>1, <1>2, <1>3, PTL DEF Spec

----------------------------------------------------------------------------
(* The page and the tabs *)

LEMMA PagesStep ==
    ASSUME Prompt PROVE TypeOK /\ Lives /\ Pages /\ [Next]_vars => Pages'
<1> SUFFICES ASSUME TypeOK, Lives, Pages, [Next]_vars PROVE Pages'
  OBVIOUS
<1>0. /\ \A s \in Starts : Life(s)
      /\ pc \in [Starts -> {"idle", "asked", "captured", "reserved", "spawned", "ok",
                            "refused", "done"}]
      /\ live \subseteq Starts /\ pending \subseteq Starts
      /\ ask \in [Starts -> [folder : Folders \cup {NoFolder}, page : 0..MaxPages]]
      /\ current \in Folders \cup {NoFolder} /\ page \in 0..MaxPages
      /\ seen \in [Starts -> 0..MaxPages]
  BY DEF Lives, TypeOK
<1> USE DEF Pages, Life, FrontendRuns
<1>1. ASSUME NEW f \in Folders, OpenProject(f), cap' = cap PROVE Pages'
  BY <1>1, <1>0 DEF OpenProject, frontVars, askedVars, startVars, registryVars, processVars
<1>2. CASE ToLauncher /\ cap' = cap
  BY <1>2, <1>0 DEF ToLauncher, frontVars, askedVars, startVars, registryVars, processVars
<1>3. CASE CloseProject /\ cap' = cap
  BY <1>3, <1>0 DEF CloseProject, frontVars, askedVars, startVars, registryVars, processVars
<1>4. CASE EndAll /\ cap' = cap
  BY <1>4, <1>0 DEF EndAll, Sweep, Tear, frontVars, askedVars, startVars, registryVars, processVars
<1>5. ASSUME NEW t \in Starts, StartSession(t), cap' = cap PROVE Pages'
  BY <1>5, <1>0 DEF StartSession, frontVars, askedVars, startVars, registryVars, processVars
<1>6. ASSUME NEW t \in Starts, EndSession(t), cap' = cap PROVE Pages'
  BY <1>6, <1>0 DEF EndSession, frontVars, askedVars, startVars, registryVars, processVars
<1>7. ASSUME NEW t \in Starts, HearStart(t), cap' = cap PROVE Pages'
  BY <1>7, <1>0 DEF HearStart, frontVars, askedVars, startVars, registryVars, processVars
<1>8. ASSUME NEW t \in Starts, Capture(t), cap' = cap PROVE Pages'
  BY <1>8, <1>0 DEF Capture, frontVars, askedVars, startVars, registryVars, processVars
<1>9. ASSUME NEW t \in Starts, Reserve(t), cap' = cap PROVE Pages'
  BY <1>9, <1>0 DEF Reserve, frontVars, askedVars, startVars, registryVars, processVars
<1>10. ASSUME NEW t \in Starts, Spawn(t), cap' = cap PROVE Pages'
  BY <1>10, <1>0 DEF Spawn, frontVars, askedVars, startVars, registryVars, processVars
<1>11. ASSUME NEW t \in Starts, SpawnFails(t), cap' = cap PROVE Pages'
  BY <1>11, <1>0 DEF SpawnFails, frontVars, askedVars, startVars, registryVars, processVars
<1>12. ASSUME NEW t \in Starts, Register(t), cap' = cap PROVE Pages'
  BY <1>12, <1>0 DEF Register, Tear, frontVars, askedVars, startVars, registryVars, processVars, Unwanted, EarlierPage
<1>13. ASSUME NEW t \in Starts, EndOne(t), cap' = cap PROVE Pages'
  BY <1>13, <1>0 DEF EndOne, Tear, frontVars, askedVars, startVars, registryVars, processVars
<1>14. ASSUME NEW t \in Starts, EndFinishes(t), cap' = cap PROVE Pages'
  BY <1>14, <1>0 DEF EndFinishes, frontVars, askedVars, startVars, registryVars, processVars
<1>15. ASSUME NEW t \in Starts, ShellExits(t), cap' = cap PROVE Pages'
  BY <1>15, <1>0 DEF ShellExits, frontVars, askedVars, startVars, registryVars, processVars
<1>16. ASSUME NEW t \in Starts, SelfExit(t), cap' = cap PROVE Pages'
  BY <1>16, <1>0 DEF SelfExit, Tear, frontVars, askedVars, startVars, registryVars, processVars
<1>17. ASSUME NEW p \in backstop, EndProject(p), cap' = cap PROVE Pages'
  BY <1>17, <1>0 DEF EndProject, Sweep, Tear, frontVars, askedVars, startVars, registryVars, processVars
<1>18. CASE PageLoads /\ cap' = cap
  BY <1>18, <1>0, Prompt DEF PageLoads, frontVars, askedVars, startVars, registryVars, processVars
<1>19. CASE PageSweeps /\ cap' = cap
  BY <1>19, <1>0 DEF PageSweeps, Sweep, Tear, frontVars, askedVars, startVars, registryVars, processVars
<1>20. CASE Quit /\ cap' = cap
  BY <1>20, <1>0 DEF Quit, frontVars, askedVars, startVars, registryVars, processVars
<1>21. CASE QuitSweeps /\ cap' = cap
  BY <1>21, <1>0 DEF QuitSweeps, Sweep, Tear, frontVars, askedVars, startVars, registryVars, processVars
<1>22. CASE QuitReturns /\ cap' = cap
  BY <1>22, <1>0 DEF QuitReturns, frontVars, askedVars, startVars, registryVars, processVars
<1>23. CASE UNCHANGED vars
  BY <1>23, <1>0 DEF vars, frontVars, askedVars, startVars, registryVars, processVars
<1> QED BY <1>1, <1>2, <1>3, <1>4, <1>5, <1>6, <1>7, <1>8, <1>9, <1>10, <1>11, <1>12, <1>13, <1>14, <1>15, <1>16, <1>17, <1>18, <1>19, <1>20, <1>21, <1>22, <1>23 DEF Next

LEMMA TabsStep ==
    ASSUME Prompt PROVE TypeOK /\ Lives /\ Tabs /\ [Next]_vars => Tabs'
<1> SUFFICES ASSUME TypeOK, Lives, Tabs, [Next]_vars PROVE Tabs'
  OBVIOUS
<1>0. /\ \A s \in Starts : Life(s)
      /\ pc \in [Starts -> {"idle", "asked", "captured", "reserved", "spawned", "ok",
                            "refused", "done"}]
      /\ live \subseteq Starts /\ pending \subseteq Starts
      /\ ask \in [Starts -> [folder : Folders \cup {NoFolder}, page : 0..MaxPages]]
      /\ current \in Folders \cup {NoFolder} /\ page \in 0..MaxPages
      /\ seen \in [Starts -> 0..MaxPages]
  BY DEF Lives, TypeOK
<1>00. /\ tab \in [Starts -> {"none", "starting", "running", "ended", "gone"}]
       /\ ends \subseteq Starts /\ NoFolder \notin Folders
  BY TerminalAssumption DEF TypeOK, TerminalAssumption
<1> USE DEF Tabs, Life, FrontendRuns, Project
<1>1. ASSUME NEW f \in Folders, OpenProject(f), cap' = cap PROVE Tabs'
  BY <1>1, <1>0, <1>00, Prompt DEF OpenProject, frontVars, askedVars, startVars, registryVars, processVars
<1>2. CASE ToLauncher /\ cap' = cap
  BY <1>2, <1>0, <1>00 DEF ToLauncher, frontVars, askedVars, startVars, registryVars, processVars
<1>3. CASE CloseProject /\ cap' = cap
  BY <1>3, <1>0, <1>00 DEF CloseProject, frontVars, askedVars, startVars, registryVars, processVars
<1>4. CASE EndAll /\ cap' = cap
  BY <1>4, <1>0, <1>00 DEF EndAll, Sweep, Tear, frontVars, askedVars, startVars, registryVars, processVars
<1>5. ASSUME NEW t \in Starts, StartSession(t), cap' = cap PROVE Tabs'
  BY <1>5, <1>0, <1>00 DEF StartSession, frontVars, askedVars, startVars, registryVars, processVars
<1>6. ASSUME NEW t \in Starts, EndSession(t), cap' = cap PROVE Tabs'
  BY <1>6, <1>0, <1>00 DEF EndSession, frontVars, askedVars, startVars, registryVars, processVars
<1>7. ASSUME NEW t \in Starts, HearStart(t), cap' = cap PROVE Tabs'
  BY <1>7, <1>0, <1>00 DEF HearStart, frontVars, askedVars, startVars, registryVars, processVars
<1>8. ASSUME NEW t \in Starts, Capture(t), cap' = cap PROVE Tabs'
  BY <1>8, <1>0, <1>00 DEF Capture, frontVars, askedVars, startVars, registryVars, processVars
<1>9. ASSUME NEW t \in Starts, Reserve(t), cap' = cap PROVE Tabs'
  BY <1>9, <1>0, <1>00 DEF Reserve, frontVars, askedVars, startVars, registryVars, processVars
<1>10. ASSUME NEW t \in Starts, Spawn(t), cap' = cap PROVE Tabs'
  BY <1>10, <1>0, <1>00 DEF Spawn, frontVars, askedVars, startVars, registryVars, processVars
<1>11. ASSUME NEW t \in Starts, SpawnFails(t), cap' = cap PROVE Tabs'
  BY <1>11, <1>0, <1>00 DEF SpawnFails, frontVars, askedVars, startVars, registryVars, processVars
<1>12. ASSUME NEW t \in Starts, Register(t), cap' = cap PROVE Tabs'
  BY <1>12, <1>0, <1>00 DEF Register, Tear, frontVars, askedVars, startVars, registryVars, processVars
<1>13. ASSUME NEW t \in Starts, EndOne(t), cap' = cap PROVE Tabs'
  BY <1>13, <1>0, <1>00 DEF EndOne, Tear, frontVars, askedVars, startVars, registryVars, processVars
<1>14. ASSUME NEW t \in Starts, EndFinishes(t), cap' = cap PROVE Tabs'
  BY <1>14, <1>0, <1>00 DEF EndFinishes, frontVars, askedVars, startVars, registryVars, processVars
<1>15. ASSUME NEW t \in Starts, ShellExits(t), cap' = cap PROVE Tabs'
  BY <1>15, <1>0, <1>00 DEF ShellExits, frontVars, askedVars, startVars, registryVars, processVars
<1>16. ASSUME NEW t \in Starts, SelfExit(t), cap' = cap PROVE Tabs'
  BY <1>16, <1>0, <1>00 DEF SelfExit, Tear, frontVars, askedVars, startVars, registryVars, processVars
<1>17. ASSUME NEW p \in backstop, EndProject(p), cap' = cap PROVE Tabs'
  BY <1>17, <1>0, <1>00 DEF EndProject, Sweep, Tear, frontVars, askedVars, startVars, registryVars, processVars
<1>18. CASE PageLoads /\ cap' = cap
  BY <1>18, <1>0, <1>00, Prompt DEF PageLoads, frontVars, askedVars, startVars, registryVars, processVars
<1>19. CASE PageSweeps /\ cap' = cap
  BY <1>19, <1>0, <1>00 DEF PageSweeps, Sweep, Tear, frontVars, askedVars, startVars, registryVars, processVars
<1>20. CASE Quit /\ cap' = cap
  BY <1>20, <1>0, <1>00 DEF Quit, frontVars, askedVars, startVars, registryVars, processVars
<1>21. CASE QuitSweeps /\ cap' = cap
  BY <1>21, <1>0, <1>00 DEF QuitSweeps, Sweep, Tear, frontVars, askedVars, startVars, registryVars, processVars
<1>22. CASE QuitReturns /\ cap' = cap
  BY <1>22, <1>0, <1>00 DEF QuitReturns, frontVars, askedVars, startVars, registryVars, processVars
<1>23. CASE UNCHANGED vars
  BY <1>23, <1>0, <1>00 DEF vars, frontVars, askedVars, startVars, registryVars, processVars
<1> QED BY <1>1, <1>2, <1>3, <1>4, <1>5, <1>6, <1>7, <1>8, <1>9, <1>10, <1>11, <1>12, <1>13, <1>14, <1>15, <1>16, <1>17, <1>18, <1>19, <1>20, <1>21, <1>22, <1>23 DEF Next

(* A live session that has lost its tab is about to be ended, and nothing but these
   causes ends one. *)
LEMMA NobodyForgottenStep ==
    TypeOK /\ Lives /\ Pages /\ Tabs /\ NobodyForgotten /\ [Next]_vars => NobodyForgotten'
<1> SUFFICES ASSUME TypeOK, Lives, Pages, Tabs, NobodyForgotten, [Next]_vars
             PROVE  NobodyForgotten'
  OBVIOUS
<1>0. /\ \A s \in Starts : Life(s)
      /\ pc \in [Starts -> {"idle", "asked", "captured", "reserved", "spawned", "ok",
                            "refused", "done"}]
      /\ live \subseteq Starts /\ pending \subseteq Starts
      /\ ask \in [Starts -> [folder : Folders \cup {NoFolder}, page : 0..MaxPages]]
      /\ current \in Folders \cup {NoFolder} /\ page \in 0..MaxPages
      /\ seen \in [Starts -> 0..MaxPages]
  BY DEF Lives, TypeOK
<1>00. tab \in [Starts -> {"none", "starting", "running", "ended", "gone"}]
  BY DEF TypeOK
<1> USE DEF NobodyForgotten, Pages, Tabs, Life, FrontendRuns
<1>1. ASSUME NEW f \in Folders, OpenProject(f), cap' = cap PROVE NobodyForgotten'
  BY <1>1, <1>0, <1>00 DEF OpenProject, frontVars, askedVars, startVars, registryVars, processVars
<1>2. CASE ToLauncher /\ cap' = cap
  BY <1>2, <1>0, <1>00 DEF ToLauncher, frontVars, askedVars, startVars, registryVars, processVars
<1>3. CASE CloseProject /\ cap' = cap
  BY <1>3, <1>0, <1>00 DEF CloseProject, frontVars, askedVars, startVars, registryVars, processVars
<1>4. CASE EndAll /\ cap' = cap
  BY <1>4, <1>0, <1>00 DEF EndAll, Sweep, Tear, frontVars, askedVars, startVars, registryVars, processVars
<1>5. ASSUME NEW t \in Starts, StartSession(t), cap' = cap PROVE NobodyForgotten'
  BY <1>5, <1>0, <1>00 DEF StartSession, frontVars, askedVars, startVars, registryVars, processVars
<1>6. ASSUME NEW t \in Starts, EndSession(t), cap' = cap PROVE NobodyForgotten'
  BY <1>6, <1>0, <1>00 DEF EndSession, frontVars, askedVars, startVars, registryVars, processVars
<1>7. ASSUME NEW t \in Starts, HearStart(t), cap' = cap PROVE NobodyForgotten'
  BY <1>7, <1>0, <1>00 DEF HearStart, frontVars, askedVars, startVars, registryVars, processVars
<1>8. ASSUME NEW t \in Starts, Capture(t), cap' = cap PROVE NobodyForgotten'
  BY <1>8, <1>0, <1>00 DEF Capture, frontVars, askedVars, startVars, registryVars, processVars
<1>9. ASSUME NEW t \in Starts, Reserve(t), cap' = cap PROVE NobodyForgotten'
  BY <1>9, <1>0, <1>00 DEF Reserve, frontVars, askedVars, startVars, registryVars, processVars
<1>10. ASSUME NEW t \in Starts, Spawn(t), cap' = cap PROVE NobodyForgotten'
  BY <1>10, <1>0, <1>00 DEF Spawn, frontVars, askedVars, startVars, registryVars, processVars
<1>11. ASSUME NEW t \in Starts, SpawnFails(t), cap' = cap PROVE NobodyForgotten'
  BY <1>11, <1>0, <1>00 DEF SpawnFails, frontVars, askedVars, startVars, registryVars, processVars
<1>12. ASSUME NEW t \in Starts, Register(t), cap' = cap PROVE NobodyForgotten'
  BY <1>12, <1>0, <1>00 DEF Register, Tear, frontVars, askedVars, startVars, registryVars, processVars, Unwanted, EarlierPage, quitting
<1>13. ASSUME NEW t \in Starts, EndOne(t), cap' = cap PROVE NobodyForgotten'
  BY <1>13, <1>0, <1>00 DEF EndOne, Tear, frontVars, askedVars, startVars, registryVars, processVars
<1>14. ASSUME NEW t \in Starts, EndFinishes(t), cap' = cap PROVE NobodyForgotten'
  BY <1>14, <1>0, <1>00 DEF EndFinishes, frontVars, askedVars, startVars, registryVars, processVars
<1>15. ASSUME NEW t \in Starts, ShellExits(t), cap' = cap PROVE NobodyForgotten'
  BY <1>15, <1>0, <1>00 DEF ShellExits, frontVars, askedVars, startVars, registryVars, processVars
<1>16. ASSUME NEW t \in Starts, SelfExit(t), cap' = cap PROVE NobodyForgotten'
  BY <1>16, <1>0, <1>00 DEF SelfExit, Tear, frontVars, askedVars, startVars, registryVars, processVars
<1>17. ASSUME NEW p \in backstop, EndProject(p), cap' = cap PROVE NobodyForgotten'
  BY <1>17, <1>0, <1>00 DEF EndProject, Sweep, Tear, frontVars, askedVars, startVars, registryVars, processVars
<1>18. CASE PageLoads /\ cap' = cap
  BY <1>18, <1>0, <1>00 DEF PageLoads, frontVars, askedVars, startVars, registryVars, processVars
<1>19. CASE PageSweeps /\ cap' = cap
  BY <1>19, <1>0, <1>00 DEF PageSweeps, Sweep, Tear, frontVars, askedVars, startVars, registryVars, processVars
<1>20. CASE Quit /\ cap' = cap
  BY <1>20, <1>0, <1>00 DEF Quit, frontVars, askedVars, startVars, registryVars, processVars
<1>21. CASE QuitSweeps /\ cap' = cap
  BY <1>21, <1>0, <1>00 DEF QuitSweeps, Sweep, Tear, frontVars, askedVars, startVars, registryVars, processVars
<1>22. CASE QuitReturns /\ cap' = cap
  BY <1>22, <1>0, <1>00 DEF QuitReturns, frontVars, askedVars, startVars, registryVars, processVars
<1>23. CASE UNCHANGED vars
  BY <1>23, <1>0, <1>00 DEF vars, frontVars, askedVars, startVars, registryVars, processVars
<1> QED BY <1>1, <1>2, <1>3, <1>4, <1>5, <1>6, <1>7, <1>8, <1>9, <1>10, <1>11, <1>12, <1>13, <1>14, <1>15, <1>16, <1>17, <1>18, <1>19, <1>20, <1>21, <1>22, <1>23 DEF Next

LEMMA EndsForAReasonStep ==
    ASSUME TypeOK, Lives, Tabs, Next, NEW s \in live \ live'
    PROVE  tab[s] = "gone" \/ proc[s] = "exited" \/ main \in {"loading", "quitting"}
<1>0. /\ \A t \in Starts : Life(t)
      /\ pc \in [Starts -> {"idle", "asked", "captured", "reserved", "spawned", "ok",
                            "refused", "done"}]
      /\ live \subseteq Starts /\ pending \subseteq Starts
      /\ ask \in [Starts -> [folder : Folders \cup {NoFolder}, page : 0..MaxPages]]
      /\ current \in Folders \cup {NoFolder} /\ page \in 0..MaxPages
      /\ seen \in [Starts -> 0..MaxPages]
  BY DEF Lives, TypeOK
<1> USE DEF Tabs, Life
<1> DEFINE Reason == tab[s] = "gone" \/ proc[s] = "exited" \/ main \in {"loading", "quitting"}
<1>1. ASSUME NEW f \in Folders, OpenProject(f), cap' = cap PROVE Reason
  BY <1>1, <1>0 DEF OpenProject, frontVars, askedVars, startVars, registryVars, processVars
<1>2. CASE ToLauncher /\ cap' = cap
  BY <1>2, <1>0 DEF ToLauncher, frontVars, askedVars, startVars, registryVars, processVars
<1>3. CASE CloseProject /\ cap' = cap
  BY <1>3, <1>0 DEF CloseProject, frontVars, askedVars, startVars, registryVars, processVars
<1>4. CASE EndAll /\ cap' = cap
  BY <1>4, <1>0 DEF EndAll, Sweep, Tear, frontVars, askedVars, startVars, registryVars, processVars
<1>5. ASSUME NEW t \in Starts, StartSession(t), cap' = cap PROVE Reason
  BY <1>5, <1>0 DEF StartSession, frontVars, askedVars, startVars, registryVars, processVars
<1>6. ASSUME NEW t \in Starts, EndSession(t), cap' = cap PROVE Reason
  BY <1>6, <1>0 DEF EndSession, frontVars, askedVars, startVars, registryVars, processVars
<1>7. ASSUME NEW t \in Starts, HearStart(t), cap' = cap PROVE Reason
  BY <1>7, <1>0 DEF HearStart, frontVars, askedVars, startVars, registryVars, processVars
<1>8. ASSUME NEW t \in Starts, Capture(t), cap' = cap PROVE Reason
  BY <1>8, <1>0 DEF Capture, frontVars, askedVars, startVars, registryVars, processVars
<1>9. ASSUME NEW t \in Starts, Reserve(t), cap' = cap PROVE Reason
  BY <1>9, <1>0 DEF Reserve, frontVars, askedVars, startVars, registryVars, processVars
<1>10. ASSUME NEW t \in Starts, Spawn(t), cap' = cap PROVE Reason
  BY <1>10, <1>0 DEF Spawn, frontVars, askedVars, startVars, registryVars, processVars
<1>11. ASSUME NEW t \in Starts, SpawnFails(t), cap' = cap PROVE Reason
  BY <1>11, <1>0 DEF SpawnFails, frontVars, askedVars, startVars, registryVars, processVars
<1>12. ASSUME NEW t \in Starts, Register(t), cap' = cap PROVE Reason
  BY <1>12, <1>0 DEF Register, Tear, frontVars, askedVars, startVars, registryVars, processVars
<1>13. ASSUME NEW t \in Starts, EndOne(t), cap' = cap PROVE Reason
  BY <1>13, <1>0 DEF EndOne, Tear, frontVars, askedVars, startVars, registryVars, processVars
<1>14. ASSUME NEW t \in Starts, EndFinishes(t), cap' = cap PROVE Reason
  BY <1>14, <1>0 DEF EndFinishes, frontVars, askedVars, startVars, registryVars, processVars
<1>15. ASSUME NEW t \in Starts, ShellExits(t), cap' = cap PROVE Reason
  BY <1>15, <1>0 DEF ShellExits, frontVars, askedVars, startVars, registryVars, processVars
<1>16. ASSUME NEW t \in Starts, SelfExit(t), cap' = cap PROVE Reason
  BY <1>16, <1>0 DEF SelfExit, Tear, frontVars, askedVars, startVars, registryVars, processVars
<1>17. ASSUME NEW p \in backstop, EndProject(p), cap' = cap PROVE Reason
  BY <1>17, <1>0 DEF EndProject, Sweep, Tear, frontVars, askedVars, startVars, registryVars, processVars, InProject
<1>18. CASE PageLoads /\ cap' = cap
  BY <1>18, <1>0 DEF PageLoads, frontVars, askedVars, startVars, registryVars, processVars
<1>19. CASE PageSweeps /\ cap' = cap
  BY <1>19, <1>0 DEF PageSweeps, Sweep, Tear, frontVars, askedVars, startVars, registryVars, processVars
<1>20. CASE Quit /\ cap' = cap
  BY <1>20, <1>0 DEF Quit, frontVars, askedVars, startVars, registryVars, processVars
<1>21. CASE QuitSweeps /\ cap' = cap
  BY <1>21, <1>0 DEF QuitSweeps, Sweep, Tear, frontVars, askedVars, startVars, registryVars, processVars
<1>22. CASE QuitReturns /\ cap' = cap
  BY <1>22, <1>0 DEF QuitReturns, frontVars, askedVars, startVars, registryVars, processVars
<1>23. CASE UNCHANGED vars
  BY <1>23, <1>0 DEF vars, frontVars, askedVars, startVars, registryVars, processVars
<1> QED BY <1>1, <1>2, <1>3, <1>4, <1>5, <1>6, <1>7, <1>8, <1>9, <1>10, <1>11, <1>12, <1>13, <1>14, <1>15, <1>16, <1>17, <1>18, <1>19, <1>20, <1>21, <1>22, <1>23 DEF Next

PageInv == TypeOK /\ Lives /\ Pages /\ Tabs

LEMMA PageInvHolds == ASSUME Prompt PROVE Spec => []PageInv
<1>1. Init => PageInv
  BY InitTypes, TerminalAssumption
     DEF Init, PageInv, Lives, Life, Pages, Tabs, TerminalAssumption
<1>2. PageInv /\ [Next]_vars => PageInv'
  BY TypesStep, LivesStep, PagesStep, TabsStep DEF PageInv
<1> QED BY <1>1, <1>2, PTL DEF Spec

(* Under Prompt, a live session was asked for by the page that is shown. *)
THEOREM SessionsOwnedByPage == ASSUME Prompt PROVE Spec => []OwnedByItsPage
<1>1. PageInv => OwnedByItsPage
  BY DEF PageInv, Pages, OwnedByItsPage
<1> QED BY <1>1, PageInvHolds, PTL

(* Under Prompt, every live session whose tab is gone is about to be ended. *)
THEOREM NoSessionForgotten == ASSUME Prompt PROVE Spec => []NobodyForgotten
<1>1. Init => NobodyForgotten
  BY DEF Init, NobodyForgotten
<1>2. PageInv /\ NobodyForgotten /\ [Next]_vars => NobodyForgotten'
  BY NobodyForgottenStep DEF PageInv
<1> QED BY <1>1, <1>2, PageInvHolds, PTL DEF Spec

(* Under Prompt, no late command ends a session that has its tab and its shell. *)
THEOREM SessionsEndForAReason == ASSUME Prompt PROVE Spec => EndsForAReason
<1>1. PageInv /\ [Next]_vars =>
        [\A s \in live \ live' :
             tab[s] = "gone" \/ proc[s] = "exited" \/ main \in {"loading", "quitting"}]_vars
  <2>1. CASE Next
    BY <2>1, EndsForAReasonStep DEF PageInv
  <2>2. CASE UNCHANGED vars
    BY <2>2
  <2> QED BY <2>1, <2>2
<1> QED BY <1>1, PageInvHolds, PTL DEF Spec, EndsForAReason

=============================================================================
