---------------------------- MODULE StartupProofs ----------------------------
(***************************************************************************)
(* Proofs about module Startup, for any number of migrations, files, rows  *)
(* and starts.  The inductive invariant is StartupInv.                     *)
(***************************************************************************)
EXTENDS Startup, FiniteSetTheorems, TLAPS

(* What a save leaves in the table is not empty and adds no other row. *)
LEMMA AfterSaveFacts ==
  ASSUME NEW s, NEW T \in AfterSave(s)
  PROVE  /\ T # {}
         /\ T \subseteq sessions \cup {s}
         /\ Cardinality(T) <= MaxSessions
BY DEF AfterSave

LEMMA InitInv == Init => StartupInv
<1> SUFFICES ASSUME Init PROVE StartupInv
  OBVIOUS
<1> USE ConstantsAssumption
<1>1. TypeOK
  <2>1. Cardinality({}) = 0
    BY FS_EmptySet
  <2>. QED  BY <2>1 DEF Init, TypeOK
<1>2. MigratedOnce
  BY DEF Init, MigratedOnce
<1>3. SessionsImportedOnce /\ \A f \in Notes : imports[f] = 0
  BY DEF Init, SessionsImportedOnce, Legacy
<1>. QED  BY <1>1, <1>2, <1>3 DEF Init, StartupInv

LEMMA MigrateInv == StartupInv /\ Migrate => StartupInv'
<1> SUFFICES ASSUME StartupInv, Migrate PROVE StartupInv'
  OBVIOUS
<1> USE ConstantsAssumption
<1>0. TypeOK /\ MigratedOnce /\ 1..(version - 1) \subseteq applied
  BY DEF StartupInv, Migrate
<1>1. version \in 1..Versions /\ version' \in 1..(Versions + 1)
  BY <1>0 DEF Migrate, TypeOK
<1>2. TypeOK'
  BY <1>0, <1>1 DEF Migrate, TypeOK
<1>3. MigratedOnce'
  <2>1. \A v \in 1..Versions : ran'[v] = IF v \in applied' THEN 1 ELSE 0
    BY <1>0, <1>1 DEF Migrate, MigratedOnce, TypeOK
  <2>2. ASSUME NEW v \in applied' PROVE 1..v \subseteq applied'
    <3>1. CASE v \in applied
      BY <1>0, <3>1 DEF Migrate, MigratedOnce
    <3>2. CASE v = version
      <4>1. 1..version = 1..(version - 1) \cup {version}
        BY <1>1
      <4>. QED  BY <1>0, <3>2, <4>1 DEF Migrate
    <3>. QED  BY <3>1, <3>2 DEF Migrate
  <2>. QED  BY <2>1, <2>2 DEF Migrate, MigratedOnce
<1>4. 1..(version' - 1) \subseteq applied'
  <2>1. 1..(version' - 1) = 1..(version - 1) \cup {version}
    BY <1>1 DEF Migrate
  <2>. QED  BY <1>0, <2>1 DEF Migrate
<1>. QED
  BY <1>2, <1>3, <1>4 DEF StartupInv, Migrate, SessionsImportedOnce

LEMMA ImportSessionInv ==
  ASSUME StartupInv, NEW f \in Notes, ImportSession(f)
  PROVE  StartupInv'
<1> USE ConstantsAssumption
<1>0. TypeOK /\ MigratedOnce /\ imports[f] = 0 /\ f \in Legacy
  BY DEF StartupInv, ImportSession, Legacy
<1>1. /\ sessions' # {}
      /\ sessions' \subseteq sessions \cup {f}
      /\ Cardinality(sessions') <= MaxSessions
  BY AfterSaveFacts DEF ImportSession
<1>2. TypeOK'
  BY <1>0, <1>1 DEF ImportSession, TypeOK
<1>3. MigratedOnce'
  BY <1>0 DEF ImportSession, MigratedOnce
<1>4. \A g \in Notes : imports'[g] = IF g = f THEN 1 ELSE imports[g]
  BY <1>0 DEF ImportSession, TypeOK, Legacy
<1>5. SessionsImportedOnce' /\ \A g \in Notes \cap todo' : imports'[g] = 0
  BY <1>4 DEF ImportSession, StartupInv, SessionsImportedOnce
<1>6. sessions' \cap OwnSessions = {}
  BY <1>1 DEF ImportSession, StartupInv
<1>. QED
  BY <1>1, <1>2, <1>3, <1>5, <1>6 DEF ImportSession, StartupInv

LEMMA ImportConversationInv ==
  ASSUME StartupInv, NEW f \in Ledgers, ImportConversation(f)
  PROVE  StartupInv'
<1> USE ConstantsAssumption
<1>0. TypeOK /\ MigratedOnce /\ f \in Legacy
  BY DEF StartupInv, Legacy
<1>1. TypeOK'
  BY <1>0 DEF ImportConversation, TypeOK
<1>2. MigratedOnce'
  BY <1>0 DEF ImportConversation, MigratedOnce
<1>3. \A g \in Notes : imports'[g] = imports[g]
  BY <1>0 DEF ImportConversation, TypeOK, Legacy
<1>4. convs' \cap OwnConvs = {}
  BY DEF ImportConversation, StartupInv
<1>. QED
  BY <1>1, <1>2, <1>3, <1>4
  DEF ImportConversation, StartupInv, SessionsImportedOnce

LEMMA SaveSessionInv == StartupInv /\ SaveSession => StartupInv'
<1> SUFFICES ASSUME StartupInv, SaveSession PROVE StartupInv'
  OBVIOUS
<1> USE ConstantsAssumption
<1>0. TypeOK /\ MigratedOnce
  BY DEF StartupInv
<1>1. /\ sessions' # {}
      /\ sessions' \subseteq sessions \cup OwnSessions
      /\ Cardinality(sessions') <= MaxSessions
  BY AfterSaveFacts DEF SaveSession
<1>2. TypeOK'
  BY <1>0, <1>1 DEF SaveSession, TypeOK
<1>. QED
  BY <1>0, <1>1, <1>2
  DEF SaveSession, StartupInv, MigratedOnce, SessionsImportedOnce

LEMMA NextInv == StartupInv /\ [Next]_vars => StartupInv'
<1> SUFFICES ASSUME StartupInv, [Next]_vars PROVE StartupInv'
  OBVIOUS
<1> USE ConstantsAssumption
<1>0. TypeOK /\ MigratedOnce /\ SessionsImportedOnce
  BY DEF StartupInv
<1>1. CASE Open
  <2>1. TypeOK'
    BY <1>0, <1>1 DEF Open, tables, TypeOK, Legacy
  <2>2. 1..(version' - 1) = {}
    BY <1>1 DEF Open
  <2>. QED
    BY <1>0, <1>1, <2>1, <2>2
    DEF Open, tables, StartupInv, MigratedOnce, SessionsImportedOnce
<1>2. CASE Migrate
  BY <1>2, MigrateInv
<1>3. CASE StartSessions
  <2>1. applied = 1..Versions
    <3>1. version - 1 = Versions
      BY <1>0, <1>3 DEF StartSessions, TypeOK
    <3>. QED  BY <1>0, <1>3, <3>1 DEF StartSessions, StartupInv, TypeOK
  <2>2. TypeOK' /\ MigratedOnce'
    BY <1>0, <1>3, <2>1 DEF StartSessions, tables, TypeOK, Legacy, MigratedOnce
  <2>. QED
    BY <1>3, <2>2 DEF StartSessions, tables, StartupInv, SessionsImportedOnce
<1>4. CASE StartConversations
  <2>1. TypeOK' /\ MigratedOnce'
    BY <1>0, <1>4 DEF StartConversations, tables, TypeOK, Legacy, MigratedOnce
  <2>2. Notes \cap todo' = {}
    BY <1>4 DEF StartConversations
  <2>. QED
    BY <1>4, <2>1, <2>2
    DEF StartConversations, tables, StartupInv, SessionsImportedOnce
<1>5. CASE Ready
  <2>1. TypeOK' /\ MigratedOnce'
    BY <1>0, <1>5 DEF Ready, tables, TypeOK, Legacy, MigratedOnce
  <2>. QED
    BY <1>5, <2>1 DEF Ready, tables, StartupInv, SessionsImportedOnce
<1>6. CASE Down
  <2>1. TypeOK' /\ MigratedOnce'
    BY <1>0, <1>6 DEF Down, tables, TypeOK, Legacy, MigratedOnce
  <2>. QED
    BY <1>6, <2>1 DEF Down, tables, StartupInv, SessionsImportedOnce
<1>7. ASSUME NEW f \in Notes, ImportSession(f) PROVE StartupInv'
  BY <1>7, ImportSessionInv
<1>8. ASSUME NEW f \in Ledgers, ImportConversation(f) PROVE StartupInv'
  BY <1>8, ImportConversationInv
<1>9. CASE SaveSession
  BY <1>9, SaveSessionInv
<1>10. CASE KeepConversation \/ DeleteConversation
  <2>1. TypeOK' /\ MigratedOnce'
    BY <1>0, <1>10
    DEF KeepConversation, DeleteConversation, TypeOK, MigratedOnce
  <2>. QED
    BY <1>10, <2>1
    DEF KeepConversation, DeleteConversation, StartupInv, SessionsImportedOnce
<1>11. CASE UNCHANGED vars
  BY <1>0, <1>11
  DEF vars, tables, StartupInv, TypeOK, MigratedOnce, SessionsImportedOnce
<1>. QED
  BY <1>1, <1>2, <1>3, <1>4, <1>5, <1>6, <1>7, <1>8, <1>9, <1>10, <1>11
  DEF Next

(* StartupInv holds in every reachable state. *)
THEOREM StartupInvHolds == Spec => []StartupInv
<1>1. Init => StartupInv
  BY InitInv
<1>2. StartupInv /\ [Next]_vars => StartupInv'
  BY NextInv
<1>. QED  BY <1>1, <1>2, PTL DEF Spec

(* The tables and the import in progress are of their types. *)
THEOREM TypeCorrect == Spec => []TypeOK
<1>1. StartupInv => TypeOK
  BY DEF StartupInv
<1>. QED  BY <1>1, StartupInvHolds, PTL

(* However often the program is interrupted while it starts, each migration
   runs once and in order, and all of them before anything is imported. *)
THEOREM MigratedOnceHolds == Spec => []MigratedOnce
<1>1. StartupInv => MigratedOnce
  BY DEF StartupInv
<1>. QED  BY <1>1, StartupInvHolds, PTL

(* A legacy session is imported at most once in the life of an installation. *)
THEOREM SessionsImportedOnceHolds == Spec => []SessionsImportedOnce
<1>1. StartupInv => SessionsImportedOnce
  BY DEF StartupInv
<1>. QED  BY <1>1, StartupInvHolds, PTL

LEMMA StepLeavesOwnData ==
  ASSUME StartupInv, [Next]_vars, pc # "up"
  PROVE  /\ sessions \cap OwnSessions # {}
              => sessions' \cap Notes \subseteq sessions
         /\ convs \cap OwnConvs # {}
              => convs' \cap Ledgers \subseteq convs
<1> USE ConstantsAssumption
<1>1. ASSUME NEW f \in Notes, ImportSession(f)
      PROVE  sessions \cap OwnSessions = {} /\ UNCHANGED convs
  BY <1>1 DEF ImportSession, StartupInv
<1>2. ASSUME NEW f \in Ledgers, ImportConversation(f)
      PROVE  convs \cap OwnConvs = {} /\ UNCHANGED sessions
  BY <1>2 DEF ImportConversation, StartupInv
<1>3. ~SaveSession /\ ~KeepConversation /\ ~DeleteConversation
  BY DEF SaveSession, KeepConversation, DeleteConversation
<1>4. CASE \/ Open \/ Migrate \/ StartSessions \/ StartConversations \/ Ready
           \/ Down \/ UNCHANGED vars
  BY <1>4
  DEF Open, Migrate, StartSessions, StartConversations, Ready, Down, vars, tables
<1>. QED
  BY <1>1, <1>2, <1>3, <1>4 DEF Next

(* A table that holds rows of the program's own receives none of the legacy
   directories. *)
THEOREM OwnDataIsLeftAloneHolds == Spec => OwnDataIsLeftAlone
<1>1. StartupInv /\ [Next]_vars
        => [pc # "up" =>
              /\ sessions \cap OwnSessions # {}
                   => sessions' \cap Notes \subseteq sessions
              /\ convs \cap OwnConvs # {}
                   => convs' \cap Ledgers \subseteq convs]_vars
  BY StepLeavesOwnData
<1>. QED  BY <1>1, StartupInvHolds, PTL DEF Spec, OwnDataIsLeftAlone
=============================================================================
