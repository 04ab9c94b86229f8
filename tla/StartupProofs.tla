---------------------------- MODULE StartupProofs ----------------------------
(***************************************************************************)
(* Replicas that start together: the invariant StartupInv, and what it     *)
(* says of the migrations, of the schema a replica serves on and of a      *)
(* start that fails, for any number of replicas and migrations, every set  *)
(* of environments and every set of faults.                                *)
(***************************************************************************)
EXTENDS Startup, TLAPS

-----------------------------------------------------------------------------
(* Every step keeps the invariant: one lemma per action. *)

LEMMA LoadKeeps ==
    ASSUME StartupInv, NEW r \in Replicas, Load(r)
    PROVE  StartupInv'
<1> USE DEF StartupInv, Load, Goto
<1>1. TypeOK'
  BY LastAssumption, FreeAssumption DEF TypeOK, Migrating, Ended, Versions
<1>2. Prefix'
  BY LastAssumption, FreeAssumption DEF Prefix
<1>3. MigrationsApart'
  BY LastAssumption, FreeAssumption DEF TypeOK, MigrationsApart, LockedAndListed
<1>4. LockedAndListed'
  BY LastAssumption, FreeAssumption DEF TypeOK, LockedAndListed, MigrationsApart, Versions, Migrating, Ended
<1>5. SetUps'
  BY LastAssumption, FreeAssumption DEF TypeOK, SetUps, SetUp, LockedAndListed, MigrationsApart, LoadError, Versions, Migrating, Ended
<1> QED
  BY <1>1, <1>2, <1>3, <1>4, <1>5

LEMMA SetupKeeps ==
    ASSUME StartupInv, NEW r \in Replicas, Setup(r)
    PROVE  StartupInv'
<1> USE DEF StartupInv, Setup, Goto
<1>1. TypeOK'
  BY LastAssumption, FreeAssumption DEF TypeOK, Migrating, Ended, Versions
<1>2. Prefix'
  BY LastAssumption, FreeAssumption DEF Prefix
<1>3. MigrationsApart'
  BY LastAssumption, FreeAssumption DEF TypeOK, MigrationsApart, LockedAndListed
<1>4. LockedAndListed'
  BY LastAssumption, FreeAssumption DEF TypeOK, LockedAndListed, MigrationsApart, Versions, Migrating, Ended
<1>5. SetUps'
  BY LastAssumption, FreeAssumption DEF TypeOK, SetUps, SetUp, LockedAndListed, MigrationsApart, LoadError, Versions, Migrating, Ended
<1> QED
  BY <1>1, <1>2, <1>3, <1>4, <1>5

LEMMA OpenPoolKeeps ==
    ASSUME StartupInv, NEW r \in Replicas, OpenPool(r)
    PROVE  StartupInv'
<1> USE DEF StartupInv, OpenPool, Goto
<1>1. TypeOK'
  BY LastAssumption, FreeAssumption DEF TypeOK, Migrating, Ended, Versions
<1>2. Prefix'
  BY LastAssumption, FreeAssumption DEF Prefix
<1>3. MigrationsApart'
  BY LastAssumption, FreeAssumption DEF TypeOK, MigrationsApart, LockedAndListed
<1>4. LockedAndListed'
  BY LastAssumption, FreeAssumption DEF TypeOK, LockedAndListed, MigrationsApart, Versions, Migrating, Ended
<1>5. SetUps'
  BY LastAssumption, FreeAssumption DEF TypeOK, SetUps, SetUp, LockedAndListed, MigrationsApart, LoadError, Versions, Migrating, Ended
<1> QED
  BY <1>1, <1>2, <1>3, <1>4, <1>5

LEMMA CheckPendingKeeps ==
    ASSUME StartupInv, NEW r \in Replicas, CheckPending(r)
    PROVE  StartupInv'
<1> USE DEF StartupInv, CheckPending, Goto
<1>1. TypeOK'
  BY LastAssumption, FreeAssumption DEF TypeOK, Migrating, Ended, Versions
<1>2. Prefix'
  BY LastAssumption, FreeAssumption DEF Prefix
<1>3. MigrationsApart'
  BY LastAssumption, FreeAssumption DEF TypeOK, MigrationsApart, LockedAndListed
<1>4. LockedAndListed'
  BY LastAssumption, FreeAssumption DEF TypeOK, LockedAndListed, MigrationsApart, Versions, Migrating, Ended
<1>5. SetUps'
  BY LastAssumption, FreeAssumption DEF TypeOK, SetUps, SetUp, LockedAndListed, MigrationsApart, LoadError, Versions, Migrating, Ended
<1> QED
  BY <1>1, <1>2, <1>3, <1>4, <1>5

LEMMA TakeLockKeeps ==
    ASSUME StartupInv, NEW r \in Replicas, TakeLock(r)
    PROVE  StartupInv'
<1> USE DEF StartupInv, TakeLock, Goto, LockGranted
<1>1. TypeOK'
  BY LastAssumption, FreeAssumption DEF TypeOK, Migrating, Ended, Versions
<1>2. Prefix'
  BY LastAssumption, FreeAssumption DEF Prefix
<1>3. MigrationsApart'
  BY LastAssumption, FreeAssumption DEF TypeOK, MigrationsApart, LockedAndListed
<1>4. LockedAndListed'
  BY LastAssumption, FreeAssumption DEF TypeOK, LockedAndListed, MigrationsApart, Versions, Migrating, Ended
<1>5. SetUps'
  BY LastAssumption, FreeAssumption DEF TypeOK, SetUps, SetUp, LockedAndListed, MigrationsApart, LoadError, Versions, Migrating, Ended
<1> QED
  BY <1>1, <1>2, <1>3, <1>4, <1>5

LEMMA ListKeeps ==
    ASSUME StartupInv, NEW r \in Replicas, List(r)
    PROVE  StartupInv'
<1> USE DEF StartupInv, List, Goto, FirstMissing
<1>1. TypeOK'
  BY LastAssumption, FreeAssumption DEF TypeOK, Migrating, Ended, Versions
<1>2. Prefix'
  BY LastAssumption, FreeAssumption DEF Prefix
<1>3. MigrationsApart'
  BY LastAssumption, FreeAssumption DEF TypeOK, MigrationsApart, LockedAndListed
<1>4. LockedAndListed'
  BY LastAssumption, FreeAssumption DEF TypeOK, LockedAndListed, MigrationsApart, Versions, Migrating, Ended
<1>5. SetUps'
  BY LastAssumption, FreeAssumption DEF TypeOK, SetUps, SetUp, LockedAndListed, MigrationsApart, LoadError, Versions, Migrating, Ended
<1> QED
  BY <1>1, <1>2, <1>3, <1>4, <1>5

LEMMA ApplyKeeps ==
    ASSUME StartupInv, NEW r \in Replicas, Apply(r)
    PROVE  StartupInv'
<1> USE DEF StartupInv, Apply, Goto
<1>1. TypeOK'
  BY LastAssumption, FreeAssumption DEF TypeOK, Migrating, Ended, Versions
<1>2. Prefix'
  BY LastAssumption, FreeAssumption DEF Prefix
<1>3. MigrationsApart'
  BY LastAssumption, FreeAssumption DEF TypeOK, MigrationsApart, LockedAndListed, Versions
<1>4. LockedAndListed'
  BY LastAssumption, FreeAssumption DEF TypeOK, LockedAndListed, MigrationsApart, Versions, Migrating, Ended
<1>5. SetUps'
  BY LastAssumption, FreeAssumption DEF TypeOK, SetUps, SetUp, LockedAndListed, MigrationsApart, LoadError, Versions, Migrating, Ended
<1> QED
  BY <1>1, <1>2, <1>3, <1>4, <1>5

LEMMA AppliedKeeps ==
    ASSUME StartupInv, NEW r \in Replicas, Applied(r)
    PROVE  StartupInv'
<1> USE DEF StartupInv, Applied, Goto
<1>1. TypeOK'
  BY LastAssumption, FreeAssumption DEF TypeOK, Migrating, Ended, Versions, LockedAndListed
<1>2. Prefix'
  BY LastAssumption, FreeAssumption DEF Prefix
<1>3. MigrationsApart'
  BY LastAssumption, FreeAssumption DEF TypeOK, MigrationsApart, LockedAndListed
<1>4. LockedAndListed'
  BY LastAssumption, FreeAssumption DEF TypeOK, LockedAndListed, MigrationsApart, Versions, Migrating, Ended
<1>5. SetUps'
  BY LastAssumption, FreeAssumption DEF TypeOK, SetUps, SetUp, LockedAndListed, MigrationsApart, LoadError, Versions, Migrating, Ended
<1> QED
  BY <1>1, <1>2, <1>3, <1>4, <1>5

LEMMA UnlockKeeps ==
    ASSUME StartupInv, NEW r \in Replicas, Unlock(r)
    PROVE  StartupInv'
<1> USE DEF StartupInv, Unlock, Goto
<1>1. TypeOK'
  BY LastAssumption, FreeAssumption DEF TypeOK, Migrating, Ended, Versions
<1>2. Prefix'
  BY LastAssumption, FreeAssumption DEF Prefix
<1>3. MigrationsApart'
  BY LastAssumption, FreeAssumption DEF TypeOK, MigrationsApart, LockedAndListed
<1>4. LockedAndListed'
  BY LastAssumption, FreeAssumption DEF TypeOK, LockedAndListed, MigrationsApart, Versions, Migrating, Ended
<1>5. SetUps'
  BY LastAssumption, FreeAssumption DEF TypeOK, SetUps, SetUp, LockedAndListed, MigrationsApart, LoadError, Versions, Migrating, Ended
<1> QED
  BY <1>1, <1>2, <1>3, <1>4, <1>5

LEMMA StartServerKeeps ==
    ASSUME StartupInv, NEW r \in Replicas, StartServer(r)
    PROVE  StartupInv'
<1> USE DEF StartupInv, StartServer, Goto
<1>1. TypeOK'
  BY LastAssumption, FreeAssumption DEF TypeOK, Migrating, Ended, Versions
<1>2. Prefix'
  BY LastAssumption, FreeAssumption DEF Prefix
<1>3. MigrationsApart'
  BY LastAssumption, FreeAssumption DEF TypeOK, MigrationsApart, LockedAndListed
<1>4. LockedAndListed'
  BY LastAssumption, FreeAssumption DEF TypeOK, LockedAndListed, MigrationsApart, Versions, Migrating, Ended
<1>5. SetUps'
  BY LastAssumption, FreeAssumption DEF TypeOK, SetUps, SetUp, LockedAndListed, MigrationsApart, LoadError, Versions, Migrating, Ended
<1> QED
  BY <1>1, <1>2, <1>3, <1>4, <1>5

LEMMA StartPublisherKeeps ==
    ASSUME StartupInv, NEW r \in Replicas, StartPublisher(r)
    PROVE  StartupInv'
<1> USE DEF StartupInv, StartPublisher, Goto
<1>1. TypeOK'
  BY LastAssumption, FreeAssumption DEF TypeOK, Migrating, Ended, Versions
<1>2. Prefix'
  BY LastAssumption, FreeAssumption DEF Prefix
<1>3. MigrationsApart'
  BY LastAssumption, FreeAssumption DEF TypeOK, MigrationsApart, LockedAndListed
<1>4. LockedAndListed'
  BY LastAssumption, FreeAssumption DEF TypeOK, LockedAndListed, MigrationsApart, Versions, Migrating, Ended
<1>5. SetUps'
  <2>1. CASE env[r].poll = "positive"
    BY <2>1, LastAssumption, FreeAssumption
    DEF TypeOK, SetUps, SetUp, LoadError, Versions, Migrating, Ended
  <2>2. CASE env[r].poll # "positive"
    <3>1. up' = [up EXCEPT ![r] = {}] /\ at' = [at EXCEPT ![r] = "panicked"]
      BY <2>2
    <3>2. ~LoadError(env[r]) /\ schema = Versions /\ lock # r
      BY DEF SetUps, SetUp, Ended
    <3> QED
      BY <3>1, <3>2 DEF TypeOK, SetUps, SetUp, LoadError, Ended
  <2> QED
    BY <2>1, <2>2
<1> QED
  BY <1>1, <1>2, <1>3, <1>4, <1>5

LEMMA ClosePoolKeeps ==
    ASSUME StartupInv, NEW r \in Replicas, ClosePool(r)
    PROVE  StartupInv'
<1> USE DEF StartupInv, ClosePool, Goto
<1>1. TypeOK'
  BY LastAssumption, FreeAssumption DEF TypeOK, Migrating, Ended, Versions
<1>2. Prefix'
  BY LastAssumption, FreeAssumption DEF Prefix
<1>3. MigrationsApart'
  BY LastAssumption, FreeAssumption DEF TypeOK, MigrationsApart, LockedAndListed
<1>4. LockedAndListed'
  BY LastAssumption, FreeAssumption DEF TypeOK, LockedAndListed, MigrationsApart, Versions, Migrating, Ended
<1>5. SetUps'
  BY LastAssumption, FreeAssumption DEF TypeOK, SetUps, SetUp, LockedAndListed, MigrationsApart, LoadError, Versions, Migrating, Ended
<1> QED
  BY <1>1, <1>2, <1>3, <1>4, <1>5

LEMMA FlushKeeps ==
    ASSUME StartupInv, NEW r \in Replicas, Flush(r)
    PROVE  StartupInv'
<1> USE DEF StartupInv, Flush, Goto
<1>1. TypeOK'
  BY LastAssumption, FreeAssumption DEF TypeOK, Migrating, Ended, Versions
<1>2. Prefix'
  BY LastAssumption, FreeAssumption DEF Prefix
<1>3. MigrationsApart'
  BY LastAssumption, FreeAssumption DEF TypeOK, MigrationsApart, LockedAndListed
<1>4. LockedAndListed'
  BY LastAssumption, FreeAssumption DEF TypeOK, LockedAndListed, MigrationsApart, Versions, Migrating, Ended
<1>5. SetUps'
  BY LastAssumption, FreeAssumption DEF TypeOK, SetUps, SetUp, LockedAndListed, MigrationsApart, LoadError, Versions, Migrating, Ended
<1> QED
  BY <1>1, <1>2, <1>3, <1>4, <1>5

LEMMA SignalKeeps ==
    ASSUME StartupInv, NEW r \in Replicas, Signal(r)
    PROVE  StartupInv'
<1> USE DEF StartupInv, Signal, Goto
<1>1. TypeOK'
  BY LastAssumption, FreeAssumption DEF TypeOK, Migrating, Ended, Versions
<1>2. Prefix'
  BY LastAssumption, FreeAssumption DEF Prefix
<1>3. MigrationsApart'
  BY LastAssumption, FreeAssumption DEF TypeOK, MigrationsApart, LockedAndListed
<1>4. LockedAndListed'
  BY LastAssumption, FreeAssumption DEF TypeOK, LockedAndListed, MigrationsApart, Versions, Migrating, Ended
<1>5. SetUps'
  BY LastAssumption, FreeAssumption DEF TypeOK, SetUps, SetUp, LockedAndListed, MigrationsApart, LoadError, Versions, Migrating, Ended
<1> QED
  BY <1>1, <1>2, <1>3, <1>4, <1>5

LEMMA SetupFailsKeeps ==
    ASSUME StartupInv, NEW r \in Replicas, SetupFails(r)
    PROVE  StartupInv'
<1> USE DEF StartupInv, SetupFails, Goto, SetupLeaves
<1>1. TypeOK'
  BY LastAssumption, FreeAssumption DEF TypeOK, Migrating, Ended, Versions
<1>2. Prefix'
  BY LastAssumption, FreeAssumption DEF Prefix
<1>3. MigrationsApart'
  BY LastAssumption, FreeAssumption DEF TypeOK, MigrationsApart, LockedAndListed
<1>4. LockedAndListed'
  BY LastAssumption, FreeAssumption DEF TypeOK, LockedAndListed, MigrationsApart, Versions, Migrating, Ended
<1>5. SetUps'
  BY LastAssumption, FreeAssumption DEF TypeOK, SetUps, SetUp, LockedAndListed, MigrationsApart, LoadError, Versions, Migrating, Ended
<1> QED
  BY <1>1, <1>2, <1>3, <1>4, <1>5

LEMMA OpenPoolFailsKeeps ==
    ASSUME StartupInv, NEW r \in Replicas, OpenPoolFails(r)
    PROVE  StartupInv'
<1> USE DEF StartupInv, OpenPoolFails, Goto
<1>1. TypeOK'
  BY LastAssumption, FreeAssumption DEF TypeOK, Migrating, Ended, Versions
<1>2. Prefix'
  BY LastAssumption, FreeAssumption DEF Prefix
<1>3. MigrationsApart'
  BY LastAssumption, FreeAssumption DEF TypeOK, MigrationsApart, LockedAndListed
<1>4. LockedAndListed'
  BY LastAssumption, FreeAssumption DEF TypeOK, LockedAndListed, MigrationsApart, Versions, Migrating, Ended
<1>5. SetUps'
  BY LastAssumption, FreeAssumption DEF TypeOK, SetUps, SetUp, LockedAndListed, MigrationsApart, LoadError, Versions, Migrating, Ended
<1> QED
  BY <1>1, <1>2, <1>3, <1>4, <1>5

LEMMA GiveUpLockKeeps ==
    ASSUME StartupInv, NEW r \in Replicas, GiveUpLock(r)
    PROVE  StartupInv'
<1> USE DEF StartupInv, GiveUpLock, Goto, MigrateFailed
<1>1. TypeOK'
  BY LastAssumption, FreeAssumption DEF TypeOK, Migrating, Ended, Versions
<1>2. Prefix'
  BY LastAssumption, FreeAssumption DEF Prefix
<1>3. MigrationsApart'
  BY LastAssumption, FreeAssumption DEF TypeOK, MigrationsApart, LockedAndListed
<1>4. LockedAndListed'
  BY LastAssumption, FreeAssumption DEF TypeOK, LockedAndListed, MigrationsApart, Versions, Migrating, Ended
<1>5. SetUps'
  BY LastAssumption, FreeAssumption DEF TypeOK, SetUps, SetUp, LockedAndListed, MigrationsApart, LoadError, Versions, Migrating, Ended
<1> QED
  BY <1>1, <1>2, <1>3, <1>4, <1>5

LEMMA MigrateFailsKeeps ==
    ASSUME StartupInv, NEW r \in Replicas, MigrateFails(r)
    PROVE  StartupInv'
<1> USE DEF StartupInv, MigrateFails, Goto, MigrateFailed
<1>1. TypeOK'
  BY LastAssumption, FreeAssumption DEF TypeOK, Migrating, Ended, Versions
<1>2. Prefix'
  BY LastAssumption, FreeAssumption DEF Prefix
<1>3. MigrationsApart'
  BY LastAssumption, FreeAssumption DEF TypeOK, MigrationsApart, LockedAndListed
<1>4. LockedAndListed'
  BY LastAssumption, FreeAssumption DEF TypeOK, LockedAndListed, MigrationsApart, Versions, Migrating, Ended
<1>5. SetUps'
  BY LastAssumption, FreeAssumption DEF TypeOK, SetUps, SetUp, LockedAndListed, MigrationsApart, LoadError, Versions, Migrating, Ended
<1> QED
  BY <1>1, <1>2, <1>3, <1>4, <1>5

LEMMA CrashKeeps ==
    ASSUME StartupInv, NEW r \in Replicas, Crash(r)
    PROVE  StartupInv'
<1> USE DEF StartupInv, Crash, Goto
<1>1. TypeOK'
  BY LastAssumption, FreeAssumption DEF TypeOK, Migrating, Ended, Versions
<1>2. Prefix'
  BY LastAssumption, FreeAssumption DEF Prefix
<1>3. MigrationsApart'
  BY LastAssumption, FreeAssumption DEF TypeOK, MigrationsApart, LockedAndListed
<1>4. LockedAndListed'
  BY LastAssumption, FreeAssumption DEF TypeOK, LockedAndListed, MigrationsApart, Versions, Migrating, Ended
<1>5. SetUps'
  BY LastAssumption, FreeAssumption DEF TypeOK, SetUps, SetUp, LockedAndListed, MigrationsApart, LoadError, Versions, Migrating, Ended
<1> QED
  BY <1>1, <1>2, <1>3, <1>4, <1>5

LEMMA CommitAppliesKeeps ==
    ASSUME StartupInv, NEW r \in Replicas, CommitApplies(r)
    PROVE  StartupInv'
<1> USE DEF StartupInv, CommitApplies, Goto
<1>1. TypeOK'
  BY LastAssumption, FreeAssumption DEF TypeOK, Migrating, Ended, Versions, LockedAndListed
<1>2. Prefix'
  BY LastAssumption, FreeAssumption DEF Prefix, TypeOK, MigrationsApart, LockedAndListed, Versions
<1>3. MigrationsApart'
  BY LastAssumption, FreeAssumption DEF TypeOK, MigrationsApart, LockedAndListed, Versions
<1>4. LockedAndListed'
  BY LastAssumption, FreeAssumption DEF TypeOK, LockedAndListed, MigrationsApart, Versions, Migrating, Ended
<1>5. SetUps'
  BY LastAssumption, FreeAssumption DEF TypeOK, SetUps, SetUp, LockedAndListed, MigrationsApart, LoadError, Versions, Migrating, Ended
<1> QED
  BY <1>1, <1>2, <1>3, <1>4, <1>5

LEMMA CommitLostKeeps ==
    ASSUME StartupInv, NEW r \in Replicas, CommitLost(r)
    PROVE  StartupInv'
<1> USE DEF StartupInv, CommitLost, Goto
<1>1. TypeOK'
  BY LastAssumption, FreeAssumption DEF TypeOK, Migrating, Ended, Versions
<1>2. Prefix'
  BY LastAssumption, FreeAssumption DEF Prefix
<1>3. MigrationsApart'
  BY LastAssumption, FreeAssumption DEF TypeOK, MigrationsApart, LockedAndListed
<1>4. LockedAndListed'
  BY LastAssumption, FreeAssumption DEF TypeOK, LockedAndListed, MigrationsApart, Versions, Migrating, Ended
<1>5. SetUps'
  BY LastAssumption, FreeAssumption DEF TypeOK, SetUps, SetUp, LockedAndListed, MigrationsApart, LoadError, Versions, Migrating, Ended
<1> QED
  BY <1>1, <1>2, <1>3, <1>4, <1>5

LEMMA SessionEndsKeeps ==
    ASSUME StartupInv, NEW r \in Replicas, SessionEnds(r)
    PROVE  StartupInv'
<1> USE DEF StartupInv, SessionEnds, Goto, LockAfter
<1>1. TypeOK'
  BY LastAssumption, FreeAssumption DEF TypeOK, Migrating, Ended, Versions
<1>2. Prefix'
  BY LastAssumption, FreeAssumption DEF Prefix
<1>3. MigrationsApart'
  BY LastAssumption, FreeAssumption DEF TypeOK, MigrationsApart, LockedAndListed
<1>4. LockedAndListed'
  BY LastAssumption, FreeAssumption DEF TypeOK, LockedAndListed, MigrationsApart, Versions, Migrating, Ended
<1>5. SetUps'
  BY LastAssumption, FreeAssumption DEF TypeOK, SetUps, SetUp, LockedAndListed, MigrationsApart, LoadError, Versions, Migrating, Ended
<1> QED
  BY <1>1, <1>2, <1>3, <1>4, <1>5

-----------------------------------------------------------------------------
(* The theorems *)

\* Nothing is set up and nobody holds the lock; an earlier start may have
\* applied some of the migrations, from the first on.
LEMMA InitialInvariant == Init => StartupInv
<1> SUFFICES ASSUME Init PROVE StartupInv
  OBVIOUS
<1> USE DEF Init
<1>1. TypeOK
  BY LastAssumption DEF TypeOK, Versions
<1>2. Prefix
  BY DEF Prefix
<1>3. MigrationsApart /\ LockedAndListed
  BY FreeAssumption DEF MigrationsApart, LockedAndListed
<1>4. SetUps
  BY DEF SetUps, SetUp, Ended
<1> QED
  BY <1>1, <1>2, <1>3, <1>4 DEF StartupInv

LEMMA StepKeepsInvariant == StartupInv /\ [Next]_vars => StartupInv'
<1> SUFFICES ASSUME StartupInv, [Next]_vars PROVE StartupInv'
  OBVIOUS
<1>1. CASE UNCHANGED vars
  BY <1>1 DEF vars, StartupInv, TypeOK, Prefix, MigrationsApart, LockedAndListed,
              SetUps, SetUp
<1>2. ASSUME NEW r \in Replicas, Run(r) PROVE StartupInv'
  BY <1>2, LoadKeeps, SetupKeeps, OpenPoolKeeps, CheckPendingKeeps, TakeLockKeeps,
     ListKeeps, ApplyKeeps, AppliedKeeps, UnlockKeeps, StartServerKeeps,
     StartPublisherKeeps, ClosePoolKeeps, FlushKeeps DEF Run
<1>3. ASSUME NEW r \in Replicas, Fault(r) PROVE StartupInv'
  BY <1>3, SignalKeeps, SetupFailsKeeps, OpenPoolFailsKeeps, GiveUpLockKeeps,
     MigrateFailsKeeps, CrashKeeps DEF Fault
<1>4. ASSUME NEW r \in Replicas, Database(r) PROVE StartupInv'
  BY <1>4, CommitAppliesKeeps, CommitLostKeeps, SessionEndsKeeps DEF Database
<1> QED
  BY <1>1, <1>2, <1>3, <1>4 DEF Next, Quiet

\* Every reachable state is well-typed and satisfies the inductive invariant:
\* whoever migrates holds the lock and knows the schema.
THEOREM StartupInvariant == Spec => []StartupInv
  BY InitialInvariant, StepKeepsInvariant, PTL DEF Spec

\* Migrate: a migration is only ever committed by the session that holds the
\* lock, once, and after all that come before it.
THEOREM MigrationsDoNotRace == Spec => []MigrationsApart
<1>1. StartupInv => MigrationsApart
  BY DEF StartupInv
<1> QED
  BY <1>1, StartupInvariant, PTL

\* run: a replica listens and publishes only on a complete schema.
THEOREM SchemaBeforeService == Spec => []ServesMigrated
<1>1. StartupInv => ServesMigrated
  BY DEF StartupInv, SetUps, SetUp, ServesMigrated
<1> QED
  BY <1>1, StartupInvariant, PTL

\* Setup, NewPool and the deferred calls of run: whatever fails, nothing that
\* was set up is left behind.
THEOREM NothingLeftRunning == Spec => []FailedStartCleansUp
<1>1. StartupInv => FailedStartCleansUp
  BY DEF StartupInv, SetUps, SetUp, FailedStartCleansUp
<1> QED
  BY <1>1, StartupInvariant, PTL

\* Load and NewTicker: a value that Load refuses, or should have refused, does
\* no harm to the database or to the other replicas.
THEOREM BadValuesEndEarly == Spec => []BadValuesAreHarmless
<1>1. StartupInv => BadValuesAreHarmless
  BY DEF StartupInv, SetUps, SetUp, BadValuesAreHarmless, LoadError
<1> QED
  BY <1>1, StartupInvariant, PTL

=============================================================================
