-------------------------- MODULE OfflineSyncProofs --------------------------
(***************************************************************************)
(* What OfflineSync guarantees for any number of processes and mutations.  *)
(***************************************************************************)
EXTENDS OfflineSync, WellFoundedInduction, FiniteSetTheorems, TLAPS

(* A process in a flush has a mutation at hand, and a pair when it is      *)
(* about to store one.                                                     *)
BusyHasWork ==
  \A p \in Proc : /\ proc[p].pc # "idle" => proc[p].todo # {}
                  /\ proc[p].pc = "persist" => proc[p].fresh \in Pair
                  /\ proc[p].pc \in {"check", "rotate"} => proc[p].sent \in Pair

TypeInv == TypeOK /\ BusyHasWork

(* Between the server's answer and mark_mutation_synced, the mutation at   *)
(* hand is one the server has carried out.                                 *)
AnsweredIsApplied ==
  \A p \in Proc : proc[p].pc \in {"cache", "synced"} => Current(p) \in applied

AppliedInv == SyncedMeansApplied /\ AnsweredIsApplied

(* A session has one good pair, and the pairs not yet issued none.         *)
OneGoodPair ==
  /\ \A k \in Pair : session[k] <= k
  /\ \A k \in valid : k <= issued
  /\ \A j, k \in valid : session[j] = session[k] => j = k

(* Tokens on their way to the service were issued.                         *)
SentWasIssued == pair <= issued /\ \A p \in Proc : proc[p].sent <= issued

(* A pair about to be stored is issued, good unless its session is spoilt, *)
(* and known to nobody else: it is not stored, nor sent, nor about to be   *)
(* stored by another.                                                      *)
PersistIsFresh ==
  \A p \in Proc : proc[p].pc = "persist" =>
    /\ proc[p].fresh \in valid \/ session[proc[p].fresh] \in spoilt
    /\ proc[p].fresh <= issued
    /\ proc[p].fresh # pair
    /\ \A q \in Proc : proc[q].sent # proc[p].fresh
    /\ \A q \in Proc \ {p} : proc[q].pc = "persist" => proc[q].fresh # proc[p].fresh

PairInv == OneGoodPair /\ SentWasIssued /\ PersistIsFresh /\ StoredPairUsable

SyncInv == TypeInv /\ AppliedInv /\ PairInv

-----------------------------------------------------------------------------
(* A set of numbers that is not empty has a least element. *)
LEMMA Least ==
  ASSUME NEW T \in SUBSET Nat, T # {}
  PROVE  \E x \in T : \A y \in T : x <= y
<1> DEFINE R == OpToRel(<, Nat)
<1>1. IsWellFoundedOn(R, Nat)
  BY NatLessThanWellFounded
<1>2. \A x, y \in Nat : y < x => <<y, x>> \in R
  BY DEF OpToRel
<1>3. T \subseteq Nat
  OBVIOUS
<1> HIDE DEF R
<1>4. PICK x \in T : \A y \in T : ~ (<<y, x>> \in R)
  BY <1>1, <1>3, WFMin, Zenon
<1>5. ASSUME NEW y \in T PROVE x <= y
  <2>1. x \in Nat /\ y \in Nat
    BY <1>3
  <2>2. ~ (y < x)
    BY <1>2, <1>4, <2>1, Zenon
  <2> QED
    BY <2>1, <2>2
<1> QED
  BY <1>5

(* A list that is not empty has a first mutation. *)
LEMMA CurrentInTodo ==
  ASSUME TypeOK, NEW p \in Proc, proc[p].todo # {}
  PROVE  Current(p) \in proc[p].todo /\ Current(p) \in Mutation
<1> DEFINE todo == proc[p].todo
<1>1. todo \subseteq Mutation
  BY DEF TypeOK, ProcState
<1>2. todo \in SUBSET Nat
  BY <1>1, SyncAssumption DEF Mutation
<1>3. \E m \in todo : \A n \in todo : m <= n
  BY <1>2, Least
<1> QED
  BY <1>1, <1>3 DEF Current

(* A process in a flush is at a mutation of its list. *)
LEMMA BusyCurrent ==
  ASSUME TypeInv, NEW p \in Proc, proc[p].pc # "idle"
  PROVE  Current(p) \in proc[p].todo /\ Current(p) \in Mutation
  BY CurrentInTodo DEF TypeInv, BusyHasWork

(* A fresh client satisfies the invariant. *)
LEMMA InitInv == Init => SyncInv
<1> SUFFICES ASSUME Init PROVE SyncInv
  OBVIOUS
<1>1. \A p \in Proc : /\ proc[p].pc = "idle" /\ proc[p] \in ProcState
                     /\ proc[p].sent = 0
  BY SyncAssumption DEF Init, Idle, ProcState, Stage
<1>2. TypeOK
  <2>1. 1 \in Pair
    BY SyncAssumption DEF Pair
  <2>2. proc \in [Proc -> ProcState]
    BY <1>1 DEF Init
  <2> QED
    BY <2>1, <2>2 DEF Init, TypeOK
<1>3. AppliedInv
  BY <1>1 DEF Init, AppliedInv, AnsweredIsApplied, SyncedMeansApplied
<1>4. PairInv
  <2>1. \A k \in Pair : k <= k
    BY SyncAssumption DEF Pair
  <2>2. OneGoodPair
    BY <2>1 DEF Init, OneGoodPair
  <2>3. SentWasIssued
    BY <1>1 DEF Init, SentWasIssued
  <2> QED
    BY <1>1, <2>2, <2>3 DEF Init, PairInv, PersistIsFresh, StoredPairUsable
<1> QED
  BY <1>1, <1>2, <1>3, <1>4 DEF SyncInv, TypeInv, BusyHasWork

-----------------------------------------------------------------------------
(* Type correctness. *)

(* A new pair is within the bound. *)
LEMMA IssueTyped ==
  ASSUME TypeOK, NEW k \in Pair, IssuePair(k)
  PROVE  /\ session' \in [Pair -> Pair] /\ valid' \subseteq Pair /\ live' \subseteq Pair /\ issued' \in Pair
         /\ issued + 1 \in Pair /\ issued + 1 \in 0..MaxPair
<1>1. issued + 1 \in Pair /\ issued + 1 \in 0..MaxPair
  BY SyncAssumption DEF TypeOK, IssuePair, Pair
<1> QED
  BY <1>1 DEF TypeOK, IssuePair

(* A PATCH keeps the field and the history typed. *)
LEMMA PatchTyped ==
  ASSUME TypeInv, NEW p \in Proc, proc[p].pc # "idle", NEW token, Patch(p, token)
  PROVE  field' \in Value /\ applied' \subseteq Mutation
<1>1. Current(p) \in Mutation /\ Want[Current(p)] \in Value
  BY BusyCurrent, SyncAssumption
<1>2. CASE Accepted(p, token)
  BY <1>1, <1>2 DEF TypeInv, TypeOK, Patch
<1>3. CASE ~Accepted(p, token)
  BY <1>3 DEF TypeInv, TypeOK, Patch
<1> QED
  BY <1>2, <1>3

(* A change of stage, an abort and an advance keep the processes typed. *)
LEMMA GotoTyped ==
  ASSUME TypeInv, NEW p \in Proc, NEW stage \in Stage \ {"persist", "check", "rotate"},
         proc[p].pc # "idle",
         Goto(p, stage)
  PROVE  proc' \in [Proc -> ProcState] /\ BusyHasWork'
  BY DEF TypeInv, TypeOK, BusyHasWork, Goto, ProcState

(* Leaving a flush keeps the processes typed. *)
LEMMA AbortTyped ==
  ASSUME TypeInv, NEW p \in Proc, Abort(p)
  PROVE  proc' \in [Proc -> ProcState] /\ BusyHasWork'
  BY SyncAssumption DEF TypeInv, TypeOK, BusyHasWork, Abort, ProcState, Idle, Stage

(* Going on to the next mutation keeps the processes typed. *)
LEMMA AdvanceTyped ==
  ASSUME TypeInv, NEW p \in Proc, proc[p].pc # "idle", Advance(p)
  PROVE  proc' \in [Proc -> ProcState] /\ BusyHasWork'
<1>1. CASE proc[p].todo \ {Current(p)} = {}
  BY <1>1, SyncAssumption
     DEF TypeInv, TypeOK, BusyHasWork, Advance, ProcState, Idle, Stage
<1>2. CASE proc[p].todo \ {Current(p)} # {}
  <2>1. proc' = [proc EXCEPT ![p] =
                   [pc |-> "send", todo |-> proc[p].todo \ {Current(p)},
                    client |-> proc[p].client, fresh |-> 0, sent |-> 0]]
    BY <1>2 DEF Advance
  <2>2. 0 \in 0..MaxPair
    BY SyncAssumption
  <2> QED
    BY <1>2, <2>1, <2>2 DEF TypeInv, TypeOK, BusyHasWork, ProcState, Stage
<1> QED
  BY <1>1, <1>2

(* So does going on without a refresh. *)
LEMMA GiveUpTyped ==
  ASSUME TypeInv, NEW p \in Proc, proc[p].pc # "idle", GiveUpRefresh(p)
  PROVE  proc' \in [Proc -> ProcState] /\ BusyHasWork'
<1>1. 0 \in 0..MaxPair
  BY SyncAssumption
<1>2. proc' \in [Proc -> ProcState]
  <2>1. [proc[p] EXCEPT !.pc = "resend", !.sent = 0] \in ProcState
    BY <1>1 DEF TypeInv, TypeOK, ProcState, Stage
  <2>2. proc' = [proc EXCEPT ![p] = [proc[p] EXCEPT !.pc = "resend", !.sent = 0]]
    BY DEF TypeInv, TypeOK, GiveUpRefresh
  <2> QED
    BY <2>1, <2>2 DEF TypeInv, TypeOK
<1>3. BusyHasWork'
  BY <1>1 DEF TypeInv, TypeOK, BusyHasWork, GiveUpRefresh, ProcState
<1> QED
  BY <1>2, <1>3

(* Every step of a flush keeps the types. *)
LEMMA FlushStepTyped ==
  ASSUME TypeInv, NEW p \in Proc, FlushStep(p)
  PROVE  TypeInv'
<1> USE DEF TypeInv
<1>1. CASE Send(p)
  <2>1. PICK stage \in Stage \ {"persist", "check", "rotate"} : Goto(p, stage)
    BY <1>1 DEF Send, Stage
  <2>2. field' \in Value /\ applied' \subseteq Mutation
    BY <1>1, PatchTyped DEF Send, TypeOK
  <2> QED
    BY <1>1, <2>1, <2>2, GotoTyped DEF Send, TypeOK, store, tokens
<1>2. CASE Resend(p)
  <2>1. PICK stage \in Stage \ {"persist", "check", "rotate"} : Goto(p, stage)
    BY <1>2 DEF Resend, Stage
  <2>2. field' \in Value /\ applied' \subseteq Mutation
    BY <1>2, PatchTyped DEF Resend, TypeOK
  <2> QED
    BY <1>2, <2>1, <2>2, GotoTyped DEF Resend, TypeOK, store, tokens
<1>3. CASE Unanswered(p)
  <2>1. field' \in Value /\ applied' \subseteq Mutation
    BY <1>3, PatchTyped DEF Unanswered
  <2> QED
    BY <1>3, <2>1, AbortTyped DEF Unanswered, TypeOK, store, tokens
<1>4. CASE OpenClient(p)
  <2>1. pair \in 0..MaxPair
    BY SyncAssumption DEF TypeOK, Pair
  <2>2. proc' \in [Proc -> ProcState] /\ BusyHasWork'
    BY <1>4, <2>1 DEF OpenClient, TypeOK, BusyHasWork, ProcState, Stage
  <2> QED
    BY <1>4, <2>2 DEF OpenClient, TypeOK, store, server, tokens
<1>5. CASE Refresh(p)
  <2>1. pair \in 0..MaxPair
    BY SyncAssumption DEF TypeOK, Pair
  <2>2. proc' \in [Proc -> ProcState] /\ BusyHasWork'
    BY <1>5, <2>1 DEF Refresh, TypeOK, BusyHasWork, ProcState, Stage
  <2> QED
    BY <1>5, <2>2 DEF Refresh, TypeOK, store, server, tokens
<1>10. CASE CheckToken(p)
  <2>1. CASE Goto(p, "rotate")
    <3>1. proc' \in [Proc -> ProcState]
      BY <1>10, <2>1 DEF Goto, TypeOK, ProcState, Stage
    <3>2. BusyHasWork'
      BY <1>10, <2>1 DEF CheckToken, Goto, TypeOK, BusyHasWork, ProcState
    <3> QED
      BY <1>10, <3>1, <3>2 DEF CheckToken, TypeOK, store, server, tokens
  <2>2. CASE GiveUpRefresh(p)
    BY <1>10, <2>2, GiveUpTyped DEF CheckToken, TypeOK, store, server, tokens
  <2> QED
    BY <1>10, <2>1, <2>2 DEF CheckToken
<1>11. CASE Rotate(p)
  <2>1. session[proc[p].sent] \in Pair
    BY <1>11 DEF Rotate, TypeOK, BusyHasWork
  <2>2. /\ session' \in [Pair -> Pair] /\ valid' \subseteq Pair /\ live' \subseteq Pair
        /\ issued' \in Pair /\ issued + 1 \in Pair /\ issued + 1 \in 0..MaxPair
    BY <1>11, <2>1, IssueTyped DEF Rotate
  <2>3. 0 \in 0..MaxPair
    BY SyncAssumption
  <2>4. proc' \in [Proc -> ProcState] /\ BusyHasWork'
    <3> DEFINE next == [proc[p] EXCEPT !.pc = "persist", !.fresh = issued + 1, !.sent = 0]
    <3>1. /\ next \in ProcState /\ next.todo = proc[p].todo
          /\ next.pc = "persist" /\ next.fresh = issued + 1
      BY <2>2, <2>3 DEF TypeOK, ProcState, Stage
    <3>2. proc' = [proc EXCEPT ![p] = next]
      BY <1>11 DEF Rotate, TypeOK
    <3>3. proc' \in [Proc -> ProcState]
      BY <3>1, <3>2 DEF TypeOK
    <3>4. \A q \in Proc : proc'[q] = IF q = p THEN next ELSE proc[q]
      BY <3>2 DEF TypeOK
    <3>5. proc[p].pc # "idle"
      BY <1>11 DEF Rotate
    <3> HIDE DEF next
    <3>6. BusyHasWork'
      BY <2>2, <3>1, <3>4, <3>5 DEF BusyHasWork
    <3> QED
      BY <3>3, <3>6
  <2> QED
    BY <1>11, <2>1, <2>2, <2>4 DEF Rotate, TypeOK, store, tokens
<1>12. CASE RotateFails(p)
  <2>1. proc' \in [Proc -> ProcState] /\ BusyHasWork'
    BY <1>12, GiveUpTyped DEF RotateFails
  <2> QED
    BY <1>12, <2>1 DEF RotateFails, TypeOK, store, server, tokens
<1>13. CASE RefreshUnanswered(p)
  <2>1. session[proc[p].sent] \in Pair
    BY <1>13 DEF RefreshUnanswered, TypeOK, BusyHasWork
  <2> QED
    BY <1>13, <2>1, AbortTyped, IssueTyped DEF RefreshUnanswered, TypeOK, store, tokens
<1>6. CASE Persist(p)
  <2>1. Goto(p, "resend") /\ "resend" \in Stage \ {"persist", "check", "rotate"} /\ proc[p].pc # "idle"
    BY <1>6 DEF Persist, Stage
  <2>2. pair' \in Pair
    BY <1>6 DEF Persist, BusyHasWork
  <2> QED
    BY <1>6, <2>1, <2>2, GotoTyped DEF Persist, TypeOK, server, tokens
<1>7. CASE CacheAnswer(p)
  <2>1. Goto(p, "synced") /\ "synced" \in Stage \ {"persist", "check", "rotate"} /\ proc[p].pc # "idle"
    BY <1>7 DEF CacheAnswer, Stage
  <2> QED
    BY <1>7, <2>1, GotoTyped DEF CacheAnswer, TypeOK, server, tokens
<1>8. CASE MarkSynced(p)
  BY <1>8, AdvanceTyped DEF MarkSynced, TypeOK, server, tokens
<1>9. CASE MarkFailed(p)
  BY <1>9, AdvanceTyped DEF MarkFailed, TypeOK, server, tokens
<1> QED
  BY <1>1, <1>2, <1>3, <1>4, <1>5, <1>6, <1>7, <1>8, <1>9, <1>10, <1>11, <1>12, <1>13
     DEF FlushStep

(* Every step keeps the types, and a busy process its list. *)
LEMMA TypeStep == TypeInv /\ [Next]_vars => TypeInv'
<1> SUFFICES ASSUME TypeInv, [Next]_vars PROVE TypeInv'
  OBVIOUS
<1> USE DEF TypeInv
<1>1. ASSUME NEW p \in Proc, NEW m \in Mutation, Enqueue(p, m) PROVE TypeInv'
  BY <1>1 DEF Enqueue, TypeOK, BusyHasWork, server, tokens
<1>2. ASSUME NEW p \in Proc, StartFlush(p) PROVE TypeInv'
  <2>1. Todo \subseteq Mutation /\ Todo # {}
    BY <1>2 DEF StartFlush, Todo, Listed
  <2>2. 0 \in 0..MaxPair
    BY SyncAssumption
  <2>3. proc' \in [Proc -> ProcState] /\ BusyHasWork'
    BY <1>2, <2>1, <2>2 DEF StartFlush, Idle, TypeOK, BusyHasWork, ProcState, Stage
  <2> QED
    BY <1>2, <2>3 DEF StartFlush, TypeOK, store, server, tokens
<1>3. ASSUME NEW p \in Proc, Pull(p) PROVE TypeInv'
  BY <1>3 DEF Pull, TypeOK, BusyHasWork, server, tokens
<1>4. ASSUME NEW p \in Proc, Login(p) PROVE TypeInv'
  <2>1. issued + 1 \in Pair
    BY <1>4, SyncAssumption DEF Login, IssuePair, TypeOK, Pair
  <2> QED
    BY <1>4, <2>1, IssueTyped DEF Login, TypeOK, BusyHasWork
<1>5. ASSUME NEW p \in Proc, FlushStep(p) PROVE TypeInv'
  BY <1>5, FlushStepTyped
<1>6. ASSUME NEW p \in Proc, Crash(p) PROVE TypeInv'
  <2>1. proc[p].pc = "persist" => session[proc[p].fresh] \in Pair
    BY DEF TypeOK, BusyHasWork
  <2> QED
    BY <1>6, <2>1, AbortTyped DEF Crash, TypeOK, store, server, tokens
<1>7. CASE Expire
  BY <1>7 DEF Expire, TypeOK, BusyHasWork, store, tokens
<1>8. CASE RivalEdit
  BY <1>8 DEF RivalEdit, TypeOK, BusyHasWork, store, tokens
<1>9. CASE UNCHANGED vars
  BY <1>9 DEF vars, TypeOK, BusyHasWork
<1> QED
  BY <1>1, <1>2, <1>3, <1>4, <1>5, <1>6, <1>7, <1>8, <1>9 DEF Next

-----------------------------------------------------------------------------
(* What is synced was carried out. *)

(* A step of p that leaves every other process alone, and takes p to the   *)
(* cache stage only with a mutation that is carried out.                   *)
LEMMA AnsweredKept ==
  ASSUME TypeInv, AnsweredIsApplied, applied \subseteq applied',
         NEW p \in Proc,
         \A q \in Proc \ {p} : proc'[q] = proc[q],
         proc'[p].pc \in {"cache", "synced"} => Current(p)' \in applied'
  PROVE  AnsweredIsApplied'
<1> SUFFICES ASSUME NEW q \in Proc, proc'[q].pc \in {"cache", "synced"}
             PROVE  Current(q)' \in applied'
  BY DEF AnsweredIsApplied
<1>1. CASE q = p
  BY <1>1
<1>2. CASE q # p
  <2>1. proc'[q] = proc[q]
    BY <1>2
  <2>2. Current(q)' = Current(q)
    BY <2>1 DEF Current
  <2> QED
    BY <2>1, <2>2 DEF AnsweredIsApplied
<1> QED
  BY <1>1, <1>2

(* What holds of a process that does not move stays so. *)
LEMMA OthersKept ==
  ASSUME TypeOK, NEW p \in Proc, NEW state, proc' = [proc EXCEPT ![p] = state]
  PROVE  /\ \A q \in Proc \ {p} : proc'[q] = proc[q]
         /\ proc'[p] = state
  BY DEF TypeOK

(* A step to another stage keeps AnsweredIsApplied if the stage allows it. *)
LEMMA GotoKept ==
  ASSUME TypeOK, NEW p \in Proc, NEW stage, Goto(p, stage)
  PROVE  /\ \A q \in Proc \ {p} : proc'[q] = proc[q]
         /\ proc'[p].pc = stage
         /\ proc'[p].fresh = proc[p].fresh
         /\ proc'[p].sent = proc[p].sent
         /\ Current(p)' = Current(p)
<1>1. /\ \A q \in Proc \ {p} : proc'[q] = proc[q]
      /\ proc'[p] = [proc[p] EXCEPT !.pc = stage]
  BY DEF TypeOK, Goto
<1>2. /\ proc'[p].pc = stage
      /\ proc'[p].fresh = proc[p].fresh
      /\ proc'[p].sent = proc[p].sent
      /\ proc'[p].todo = proc[p].todo
  BY <1>1 DEF TypeOK, ProcState
<1> QED
  BY <1>1, <1>2 DEF Current

(* The next mutation starts unanswered. *)
LEMMA AdvanceKept ==
  ASSUME TypeOK, NEW p \in Proc, Advance(p)
  PROVE  /\ \A q \in Proc \ {p} : proc'[q] = proc[q]
         /\ proc'[p].pc \in {"idle", "send"}
         /\ proc'[p].sent = 0
  BY DEF TypeOK, Advance, Idle

(* A PATCH never takes a mutation out of the history. *)
LEMMA PatchApplied ==
  ASSUME NEW p, NEW token, Patch(p, token)
  PROVE  /\ applied \subseteq applied'
         /\ Accepted(p, token) => Current(p) \in applied'
  BY DEF Patch

(* Every step of a flush keeps SyncedMeansApplied. *)
LEMMA FlushStepApplied ==
  ASSUME TypeInv, AppliedInv, NEW p \in Proc, FlushStep(p)
  PROVE  AppliedInv'
<1> USE DEF AppliedInv
<1>t. TypeOK
  BY DEF TypeInv
<1>1. CASE Send(p)
  <2>1. CASE Patch(p, proc[p].client) /\
             Goto(p, IF proc[p].client \notin live THEN "reopen"
                     ELSE IF Accepted(p, proc[p].client) THEN "cache" ELSE "failed")
    <3>1. applied \subseteq applied'
      BY <2>1, PatchApplied
    <3>2. proc'[p].pc \in {"cache", "synced"} => Current(p)' \in applied'
      BY <1>t, <2>1, GotoKept, PatchApplied
    <3>3. AnsweredIsApplied'
      BY <1>t, <2>1, <3>1, <3>2, GotoKept, AnsweredKept
    <3> QED
      BY <1>1, <3>1, <3>3 DEF Send, SyncedMeansApplied, store
  <2>2. CASE Goto(p, "failed") /\ UNCHANGED <<field, applied>>
    <3>1. AnsweredIsApplied'
      BY <1>t, <2>2, GotoKept, AnsweredKept
    <3> QED
      BY <1>1, <2>2, <3>1 DEF Send, SyncedMeansApplied, store
  <2> QED
    BY <1>1, <2>1, <2>2 DEF Send
<1>2. CASE Resend(p)
  <2>1. CASE Patch(p, proc[p].fresh) /\
             Goto(p, IF Accepted(p, proc[p].fresh) THEN "cache" ELSE "failed")
    <3>1. applied \subseteq applied'
      BY <2>1, PatchApplied
    <3>2. proc'[p].pc \in {"cache", "synced"} => Current(p)' \in applied'
      BY <1>t, <2>1, GotoKept, PatchApplied
    <3>3. AnsweredIsApplied'
      BY <1>t, <2>1, <3>1, <3>2, GotoKept, AnsweredKept
    <3> QED
      BY <1>2, <3>1, <3>3 DEF Resend, SyncedMeansApplied, store
  <2>2. CASE Goto(p, "failed") /\ UNCHANGED <<field, applied>>
    <3>1. AnsweredIsApplied'
      BY <1>t, <2>2, GotoKept, AnsweredKept
    <3> QED
      BY <1>2, <2>2, <3>1 DEF Resend, SyncedMeansApplied, store
  <2> QED
    BY <1>2, <2>1, <2>2 DEF Resend
<1>3. CASE Unanswered(p)
  <2>1. applied \subseteq applied'
    BY <1>3, PatchApplied DEF Unanswered
  <2>2. AnsweredIsApplied'
    BY <1>3, <1>t, <2>1, OthersKept, AnsweredKept DEF Unanswered, Abort, Idle
  <2> QED
    BY <1>3, <2>1, <2>2 DEF Unanswered, SyncedMeansApplied, store
<1>4. CASE OpenClient(p) \/ Refresh(p) \/ CheckToken(p) \/ RotateFails(p)
  <2>1. /\ \A q \in Proc \ {p} : proc'[q] = proc[q]
        /\ proc'[p].pc \in {"send", "renew", "check", "rotate", "resend"}
    BY <1>4, <1>t DEF OpenClient, Refresh, CheckToken, RotateFails, GiveUpRefresh, Goto,
                      TypeOK, ProcState
  <2>2. status' = status /\ applied' = applied
    BY <1>4 DEF OpenClient, Refresh, CheckToken, RotateFails, store
  <2>3. AnsweredIsApplied'
    BY <2>1, <2>2, AnsweredKept
  <2> QED
    BY <2>2, <2>3 DEF SyncedMeansApplied
<1>5. CASE Rotate(p)
  <2>1. /\ \A q \in Proc \ {p} : proc'[q] = proc[q]
        /\ proc'[p].pc = "persist"
    BY <1>5, <1>t DEF Rotate, TypeOK, ProcState
  <2>2. AnsweredIsApplied'
    BY <1>5, <2>1, AnsweredKept DEF Rotate
  <2> QED
    BY <1>5, <2>2 DEF Rotate, SyncedMeansApplied, store
<1>10. CASE RefreshUnanswered(p)
  <2>1. AnsweredIsApplied'
    BY <1>10, <1>t, OthersKept, AnsweredKept DEF RefreshUnanswered, Abort, Idle
  <2> QED
    BY <1>10, <2>1 DEF RefreshUnanswered, SyncedMeansApplied, store
<1>6. CASE Persist(p)
  <2>1. AnsweredIsApplied'
    BY <1>6, <1>t, GotoKept, AnsweredKept DEF Persist
  <2> QED
    BY <1>6, <2>1 DEF Persist, SyncedMeansApplied
<1>7. CASE CacheAnswer(p)
  <2>1. Current(p) \in applied
    BY <1>7 DEF CacheAnswer, AnsweredIsApplied
  <2>2. AnsweredIsApplied'
    BY <1>7, <1>t, <2>1, GotoKept, AnsweredKept DEF CacheAnswer
  <2> QED
    BY <1>7, <2>2 DEF CacheAnswer, SyncedMeansApplied
<1>8. CASE MarkSynced(p)
  <2>1. Current(p) \in applied
    BY <1>8 DEF MarkSynced, AnsweredIsApplied
  <2>2. AnsweredIsApplied'
    BY <1>8, <1>t, AdvanceKept, AnsweredKept DEF MarkSynced
  <2> QED
    BY <1>8, <1>t, <2>1, <2>2 DEF MarkSynced, SyncedMeansApplied, TypeOK
<1>9. CASE MarkFailed(p)
  <2>1. AnsweredIsApplied'
    BY <1>9, <1>t, AdvanceKept, AnsweredKept DEF MarkFailed
  <2> QED
    BY <1>9, <1>t, <2>1 DEF MarkFailed, SyncedMeansApplied, TypeOK
<1> QED
  BY <1>1, <1>2, <1>3, <1>4, <1>5, <1>6, <1>7, <1>8, <1>9, <1>10
     DEF FlushStep

(* No process moves and nothing is taken back. *)
LEMMA NoProcessMoves ==
  ASSUME AnsweredIsApplied, proc' = proc, applied' = applied
  PROVE  AnsweredIsApplied'
  BY DEF AnsweredIsApplied, Current

(* Every step keeps it. *)
LEMMA AppliedStep == TypeInv /\ AppliedInv /\ [Next]_vars => AppliedInv'
<1> SUFFICES ASSUME TypeInv, AppliedInv, [Next]_vars PROVE AppliedInv'
  OBVIOUS
<1> USE DEF AppliedInv
<1>t. TypeOK
  BY DEF TypeInv
<1>1. ASSUME NEW p \in Proc, NEW m \in Mutation, Enqueue(p, m) PROVE AppliedInv'
  BY <1>1, <1>t, NoProcessMoves DEF Enqueue, SyncedMeansApplied, TypeOK
<1>2. ASSUME NEW p \in Proc, StartFlush(p) PROVE AppliedInv'
  <2>1. /\ \A q \in Proc \ {p} : proc'[q] = proc[q]
        /\ proc'[p].pc = "open"
        /\ applied' = applied
    BY <1>2, <1>t DEF StartFlush, Idle, TypeOK
  <2>2. AnsweredIsApplied'
    BY <2>1, AnsweredKept
  <2> QED
    BY <1>2, <2>2 DEF StartFlush, SyncedMeansApplied, store
<1>3. ASSUME NEW p \in Proc, Pull(p) PROVE AppliedInv'
  BY <1>3, NoProcessMoves DEF Pull, SyncedMeansApplied
<1>4. ASSUME NEW p \in Proc, Login(p) PROVE AppliedInv'
  BY <1>4, NoProcessMoves DEF Login, SyncedMeansApplied
<1>5. ASSUME NEW p \in Proc, FlushStep(p) PROVE AppliedInv'
  BY <1>5, FlushStepApplied
<1>6. ASSUME NEW p \in Proc, Crash(p) PROVE AppliedInv'
  <2>1. /\ \A q \in Proc \ {p} : proc'[q] = proc[q]
        /\ proc'[p].pc = "idle"
        /\ applied' = applied
    BY <1>6, <1>t DEF Crash, Abort, Idle, TypeOK
  <2>2. AnsweredIsApplied'
    BY <2>1, AnsweredKept
  <2> QED
    BY <1>6, <2>2 DEF Crash, SyncedMeansApplied, store
<1>7. CASE Expire
  BY <1>7, NoProcessMoves DEF Expire, SyncedMeansApplied, store
<1>8. CASE RivalEdit
  BY <1>8, NoProcessMoves DEF RivalEdit, SyncedMeansApplied, store
<1>9. CASE UNCHANGED vars
  BY <1>9, NoProcessMoves DEF vars, SyncedMeansApplied
<1> QED
  BY <1>1, <1>2, <1>3, <1>4, <1>5, <1>6, <1>7, <1>8, <1>9 DEF Next

-----------------------------------------------------------------------------
(* The stored pair is usable. *)

(* A step that issues no pair and after which p stores none. *)
LEMMA PairKept ==
  ASSUME TypeInv, PairInv, NEW p \in Proc,
         \A q \in Proc \ {p} : proc'[q] = proc[q],
         proc'[p].pc # "persist",
         proc'[p].sent \in {0, proc[p].sent, pair},
         proc[p].pc = "persist" => session[proc[p].fresh] \in spoilt',
         spoilt \subseteq spoilt',
         UNCHANGED <<pair, session, issued, valid>>
  PROVE  PairInv'
<1>1. PersistIsFresh'
  <2> SUFFICES ASSUME NEW q \in Proc, proc'[q].pc = "persist"
               PROVE  /\ proc[q].fresh \in valid \/ session[proc[q].fresh] \in spoilt'
                      /\ proc[q].fresh <= issued
                      /\ proc[q].fresh # pair
                      /\ \A o \in Proc : proc'[o].sent # proc[q].fresh
                      /\ \A o \in Proc \ {q} :
                           proc'[o].pc = "persist" => proc'[o].fresh # proc[q].fresh
    BY DEF PersistIsFresh
  <2>1. q # p /\ proc[q].pc = "persist"
    OBVIOUS
  <2>2. /\ proc[q].fresh \in valid \/ session[proc[q].fresh] \in spoilt
        /\ proc[q].fresh <= issued
        /\ proc[q].fresh # pair
        /\ \A o \in Proc : proc[o].sent # proc[q].fresh
        /\ \A o \in Proc \ {q} : proc[o].pc = "persist" => proc[o].fresh # proc[q].fresh
    BY <2>1 DEF PairInv, PersistIsFresh
  <2>3. proc[q].fresh # 0
    BY <2>1, SyncAssumption DEF TypeInv, BusyHasWork, Pair
  <2>4. \A o \in Proc : proc'[o].sent # proc[q].fresh
    BY <2>2, <2>3
  <2>5. \A o \in Proc \ {q} : proc'[o].pc = "persist" => proc'[o].fresh # proc[q].fresh
    BY <2>2
  <2> QED
    BY <2>2, <2>4, <2>5
<1>2. StoredPairUsable'
  <2>1. CASE \E q \in Proc : /\ proc[q].pc = "persist"
                             /\ session[proc[q].fresh] = session[pair]
    <3>1. PICK q \in Proc : /\ proc[q].pc = "persist"
                            /\ session[proc[q].fresh] = session[pair]
      BY <2>1
    <3>2. q = p => session[pair] \in spoilt'
      BY <3>1
    <3>3. q # p => proc'[q] = proc[q]
      OBVIOUS
    <3> QED
      BY <3>1, <3>2, <3>3 DEF StoredPairUsable
  <2>2. CASE pair \in valid \/ session[pair] \in spoilt
    BY <2>2 DEF StoredPairUsable
  <2> QED
    BY <2>1, <2>2 DEF PairInv, StoredPairUsable
<1>3. OneGoodPair'
  BY DEF PairInv, OneGoodPair
<1>4. SentWasIssued'
  <2>1. issued \in Nat
    BY SyncAssumption DEF TypeInv, TypeOK, Pair
  <2>2. \A q \in Proc : proc'[q].sent <= issued
    BY <2>1 DEF PairInv, SentWasIssued
  <2> QED
    BY <2>2 DEF PairInv, SentWasIssued
<1> QED
  BY <1>1, <1>2, <1>3, <1>4 DEF PairInv

(* A step that touches no token keeps the pairs. *)
LEMMA NoPairMoves ==
  ASSUME PairInv, UNCHANGED <<proc, pair, session, issued, valid, spoilt>>
  PROVE  PairInv'
  BY DEF PairInv, OneGoodPair, SentWasIssued, PersistIsFresh, StoredPairUsable

(* A new pair takes the place of what was good in its session, and leaves  *)
(* the others alone. *)
LEMMA IssueWell ==
  ASSUME TypeOK, OneGoodPair, NEW k \in Pair, k <= issued + 1, IssuePair(k)
  PROVE  /\ issued \in Nat /\ issued' = issued + 1 /\ issued + 1 \in Pair
         /\ issued + 1 \in valid' /\ session'[issued + 1] = k
         /\ \A j \in Pair : j # issued + 1 => session'[j] = session[j]
         /\ \A j \in valid : session[j] # k => j \in valid'
         /\ \A j \in valid : j # issued + 1
         /\ OneGoodPair'
<1>1. issued \in Nat /\ issued' = issued + 1 /\ issued + 1 \in Pair
  BY SyncAssumption DEF TypeOK, IssuePair, Pair
<1>2. /\ session'[issued + 1] = k
      /\ \A j \in Pair : j # issued + 1 => session'[j] = session[j]
  BY <1>1 DEF TypeOK, IssuePair
<1>3. /\ issued + 1 \in valid'
      /\ \A j \in valid : session[j] # k => j \in valid'
      /\ \A j \in valid' : j = issued + 1 \/ (j \in valid /\ session[j] # k)
  BY DEF IssuePair
<1>4. \A j \in valid : j \in Pair /\ j \in Nat /\ j <= issued
  BY SyncAssumption DEF TypeOK, OneGoodPair, Pair
<1>5. \A j \in valid : j # issued + 1
  BY <1>1, <1>4
<1>6. \A j \in Pair : session'[j] <= j
  BY <1>1, <1>2 DEF OneGoodPair
<1>7. \A j \in valid' : j <= issued'
  BY <1>1, <1>3, <1>4
<1>8. ASSUME NEW i \in valid', NEW j \in valid', session'[i] = session'[j]
      PROVE  i = j
  BY <1>1, <1>2, <1>3, <1>4, <1>5, <1>8 DEF OneGoodPair
<1>9. OneGoodPair'
  BY <1>6, <1>7, <1>8 DEF OneGoodPair
<1> QED
  BY <1>1, <1>2, <1>3, <1>5, <1>9

(* A sign-in stores the pair it was given. *)
LEMMA LoginPair ==
  ASSUME TypeInv, PairInv, NEW p \in Proc, Login(p)
  PROVE  PairInv'
<1>1. /\ IssuePair(issued + 1) /\ TypeOK /\ OneGoodPair
      /\ pair' = issued + 1 /\ proc' = proc /\ spoilt' = spoilt
  BY DEF Login, TypeInv, PairInv
<1>2. issued + 1 \in Pair /\ issued + 1 <= issued + 1
  BY <1>1, SyncAssumption DEF IssuePair, TypeOK, Pair
<1>3. /\ issued \in Nat /\ issued' = issued + 1
      /\ issued + 1 \in valid'
      /\ \A j \in Pair : j # issued + 1 => session'[j] = session[j]
      /\ \A j \in valid : session[j] # issued + 1 => j \in valid'
      /\ OneGoodPair'
  BY <1>1, <1>2, IssueWell
<1>4. \A j \in Pair : session[j] \in Nat /\ j \in Nat
  BY <1>1, SyncAssumption DEF TypeOK, Pair
<1>5. \A j \in valid : session[j] # issued + 1
  <2> SUFFICES ASSUME NEW j \in valid PROVE session[j] # issued + 1
    OBVIOUS
  <2>1. j \in Pair /\ j <= issued /\ session[j] <= j
    BY <1>1 DEF TypeOK, OneGoodPair
  <2> QED
    BY <1>3, <1>4, <2>1
<1>6. SentWasIssued'
  <2>1. \A q \in Proc : proc[q].sent \in Nat /\ proc[q].sent <= issued
    BY <1>1, SyncAssumption DEF TypeOK, ProcState, PairInv, SentWasIssued
  <2> QED
    BY <1>1, <1>3, <2>1 DEF SentWasIssued
<1>7. PersistIsFresh'
  <2> SUFFICES ASSUME NEW q \in Proc, proc[q].pc = "persist"
               PROVE  /\ proc[q].fresh \in valid' \/ session'[proc[q].fresh] \in spoilt
                      /\ proc[q].fresh <= issued + 1
                      /\ proc[q].fresh # issued + 1
                      /\ \A o \in Proc : proc[o].sent # proc[q].fresh
                      /\ \A o \in Proc \ {q} :
                           proc[o].pc = "persist" => proc[o].fresh # proc[q].fresh
    BY <1>1, <1>3 DEF PersistIsFresh
  <2>1. /\ proc[q].fresh \in valid \/ session[proc[q].fresh] \in spoilt
        /\ proc[q].fresh <= issued
        /\ \A o \in Proc : proc[o].sent # proc[q].fresh
        /\ \A o \in Proc \ {q} : proc[o].pc = "persist" => proc[o].fresh # proc[q].fresh
    BY DEF PairInv, PersistIsFresh
  <2>2. proc[q].fresh \in Pair
    BY DEF TypeInv, BusyHasWork
  <2>3. proc[q].fresh # issued + 1 /\ proc[q].fresh <= issued + 1
    BY <1>3, <1>4, <2>1, <2>2
  <2>4. proc[q].fresh \in valid' \/ session'[proc[q].fresh] \in spoilt
    BY <1>3, <1>5, <2>1, <2>2, <2>3
  <2> QED
    BY <2>1, <2>3, <2>4
<1>8. StoredPairUsable'
  BY <1>1, <1>3 DEF StoredPairUsable
<1> QED
  BY <1>3, <1>6, <1>7, <1>8 DEF PairInv

(* A refresh at the service: what the other processes are about to store   *)
(* stays good, unless the session is spoilt; and the stored pair is still  *)
(* usable, is replaced by the new one, or its session is spoilt.           *)
LEMMA RotationPair ==
  ASSUME TypeInv, PairInv, NEW p \in Proc, proc[p].pc = "rotate",
         NEW k, k = session[proc[p].sent], IssuePair(k),
         spoilt \subseteq spoilt', proc[p].sent \notin valid => k \in spoilt',
         pair' = pair
  PROVE  /\ OneGoodPair' /\ issued \in Nat /\ issued' = issued + 1 /\ issued + 1 \in Pair
         /\ issued + 1 \in valid' /\ session'[issued + 1] = k
         /\ pair <= issued' /\ pair # issued + 1
         /\ \A q \in Proc : /\ proc[q].sent <= issued'
                            /\ proc[q].sent # issued + 1
         /\ \A q \in Proc : proc[q].pc = "persist" =>
              /\ proc[q].fresh \in valid' \/ session'[proc[q].fresh] \in spoilt'
              /\ proc[q].fresh <= issued'
              /\ proc[q].fresh # issued + 1
         /\ \/ pair \in valid'
            \/ session'[pair] = k
            \/ session'[pair] \in spoilt'
            \/ \E q \in Proc : /\ proc[q].pc = "persist"
                               /\ session'[proc[q].fresh] = session'[pair]
<1>1. TypeOK /\ OneGoodPair /\ proc[p].sent \in Pair /\ k \in Pair
  BY DEF TypeInv, TypeOK, BusyHasWork, PairInv
<1>2. \A j \in Pair : j \in Nat /\ session[j] \in Nat /\ session[j] <= j
  BY <1>1, SyncAssumption DEF TypeOK, OneGoodPair, Pair
<1>3. issued \in Nat /\ pair \in Pair /\ pair <= issued /\ proc[p].sent <= issued
  BY <1>1, SyncAssumption DEF TypeOK, Pair, PairInv, SentWasIssued
<1>4. k <= issued + 1
  BY <1>1, <1>2, <1>3
<1>5. /\ issued' = issued + 1 /\ issued + 1 \in Pair
      /\ issued + 1 \in valid' /\ session'[issued + 1] = k
      /\ \A j \in Pair : j # issued + 1 => session'[j] = session[j]
      /\ \A j \in valid : session[j] # k => j \in valid'
      /\ OneGoodPair'
  BY <1>1, <1>4, IssueWell
<1>6. pair <= issued' /\ pair # issued + 1 /\ session'[pair] = session[pair]
  BY <1>2, <1>3, <1>5
<1>7. \A q \in Proc : proc[q].sent <= issued' /\ proc[q].sent # issued + 1
  <2>1. \A q \in Proc : proc[q].sent \in Nat /\ proc[q].sent <= issued
    BY <1>1, SyncAssumption DEF TypeOK, ProcState, PairInv, SentWasIssued
  <2> QED
    BY <1>3, <1>5, <2>1
<1>8. ASSUME NEW q \in Proc, proc[q].pc = "persist"
      PROVE  /\ proc[q].fresh \in valid' \/ session'[proc[q].fresh] \in spoilt'
             /\ proc[q].fresh <= issued'
             /\ proc[q].fresh # issued + 1
             /\ session'[proc[q].fresh] = session[proc[q].fresh]
  <2>1. /\ proc[q].fresh \in valid \/ session[proc[q].fresh] \in spoilt
        /\ proc[q].fresh <= issued
        /\ proc[p].sent # proc[q].fresh
    BY <1>8 DEF PairInv, PersistIsFresh
  <2>2. proc[q].fresh \in Pair
    BY <1>8 DEF TypeInv, BusyHasWork
  <2>3. /\ proc[q].fresh <= issued' /\ proc[q].fresh # issued + 1
        /\ session'[proc[q].fresh] = session[proc[q].fresh]
    BY <1>2, <1>3, <1>5, <2>1, <2>2
  <2>4. CASE proc[q].fresh \in valid /\ session[proc[q].fresh] = k
    <3>1. proc[p].sent \notin valid
      BY <2>1, <2>4, <1>1 DEF OneGoodPair
    <3> QED
      BY <2>3, <2>4, <3>1
  <2>5. CASE ~ (proc[q].fresh \in valid /\ session[proc[q].fresh] = k)
    BY <1>5, <2>1, <2>3, <2>5
  <2> QED
    BY <2>3, <2>4, <2>5
<1>9. \/ pair \in valid'
      \/ session'[pair] = k
      \/ session'[pair] \in spoilt'
      \/ \E q \in Proc : /\ proc[q].pc = "persist"
                         /\ session'[proc[q].fresh] = session'[pair]
  <2>1. CASE pair \in valid
    BY <1>5, <1>6, <2>1
  <2>2. CASE session[pair] \in spoilt
    BY <1>6, <2>2
  <2>3. CASE \E q \in Proc : /\ proc[q].pc = "persist"
                             /\ session[proc[q].fresh] = session[pair]
    BY <1>6, <1>8, <2>3
  <2> QED
    BY <2>1, <2>2, <2>3 DEF PairInv, StoredPairUsable
<1> QED
  BY <1>3, <1>5, <1>6, <1>7, <1>8, <1>9

(* A refresh leaves p with a new pair to store. *)
LEMMA RotatePair ==
  ASSUME TypeInv, PairInv, NEW p \in Proc, Rotate(p)
  PROVE  PairInv'
<1> DEFINE k == session[proc[p].sent]
<1>1. /\ proc[p].pc = "rotate" /\ IssuePair(k) /\ pair' = pair
      /\ spoilt \subseteq spoilt' /\ (proc[p].sent \notin valid => k \in spoilt')
  BY DEF Rotate, store
<1>2. /\ \A q \in Proc \ {p} : proc'[q] = proc[q]
      /\ proc'[p].pc = "persist" /\ proc'[p].fresh = issued + 1 /\ proc'[p].sent = 0
  BY DEF Rotate, TypeInv, TypeOK, ProcState
<1> HIDE DEF k
<1>i. /\ OneGoodPair' /\ issued \in Nat /\ issued' = issued + 1 /\ issued + 1 \in Pair
      /\ issued + 1 \in valid' /\ session'[issued + 1] = k
      /\ pair <= issued' /\ pair # issued + 1
      /\ \A q \in Proc : /\ proc[q].sent <= issued'
                         /\ proc[q].sent # issued + 1
      /\ \A q \in Proc : proc[q].pc = "persist" =>
           /\ proc[q].fresh \in valid' \/ session'[proc[q].fresh] \in spoilt'
           /\ proc[q].fresh <= issued'
           /\ proc[q].fresh # issued + 1
      /\ \/ pair \in valid'
         \/ session'[pair] = k
         \/ session'[pair] \in spoilt'
         \/ \E q \in Proc : /\ proc[q].pc = "persist"
                            /\ session'[proc[q].fresh] = session'[pair]
  <2>1. k = session[proc[p].sent]
    BY DEF k
  <2> QED
    BY <1>1, <2>1, RotationPair
<1>3. PersistIsFresh'
  <2> SUFFICES ASSUME NEW q \in Proc, proc'[q].pc = "persist"
               PROVE  /\ \/ proc'[q].fresh \in valid'
                         \/ session'[proc'[q].fresh] \in spoilt'
                      /\ proc'[q].fresh <= issued'
                      /\ proc'[q].fresh # pair
                      /\ \A o \in Proc : proc'[o].sent # proc'[q].fresh
                      /\ \A o \in Proc \ {q} :
                           proc'[o].pc = "persist" => proc'[o].fresh # proc'[q].fresh
    BY <1>1 DEF PersistIsFresh
  <2>1. CASE q = p
    <3>1. proc'[q].fresh = issued + 1
      BY <1>2, <2>1
    <3>2. \A o \in Proc \ {q} : proc'[o].pc = "persist" => proc'[o].fresh # issued + 1
      BY <1>2, <1>i, <2>1
    <3>3. \A o \in Proc : proc'[o].sent # issued + 1
      BY <1>2, <1>i
    <3>4. issued + 1 \in valid' /\ issued + 1 <= issued' /\ issued + 1 # pair
      BY <1>i
    <3> QED
      BY <3>1, <3>2, <3>3, <3>4
  <2>2. CASE q # p
    <3>1. proc[q].pc = "persist" /\ proc'[q] = proc[q]
      BY <1>2, <2>2
    <3>2. /\ proc[q].fresh # pair
          /\ \A o \in Proc : proc[o].sent # proc[q].fresh
          /\ \A o \in Proc \ {q} : proc[o].pc = "persist" => proc[o].fresh # proc[q].fresh
      BY <3>1 DEF PairInv, PersistIsFresh
    <3>3. /\ proc[q].fresh \in valid' \/ session'[proc[q].fresh] \in spoilt'
          /\ proc[q].fresh <= issued' /\ proc[q].fresh # issued + 1
      BY <1>i, <3>1
    <3>4. proc[q].fresh # 0
      BY <3>1, SyncAssumption DEF TypeInv, BusyHasWork, Pair
    <3>5. \A o \in Proc : proc'[o].sent # proc[q].fresh
      BY <1>2, <3>2, <3>4
    <3>6. \A o \in Proc \ {q} : proc'[o].pc = "persist" => proc'[o].fresh # proc[q].fresh
      BY <1>2, <3>2, <3>3
    <3> QED
      BY <3>1, <3>2, <3>3, <3>5, <3>6
  <2> QED
    BY <2>1, <2>2
<1>4. SentWasIssued'
  <2>1. \A q \in Proc : proc'[q].sent <= issued'
    BY <1>2, <1>i
  <2> QED
    BY <1>1, <1>i, <2>1 DEF SentWasIssued
<1>5. StoredPairUsable'
  <2>1. CASE session'[pair] = k
    BY <1>1, <1>2, <1>i, <2>1 DEF StoredPairUsable
  <2>2. CASE pair \in valid' \/ session'[pair] \in spoilt'
    BY <1>1, <2>2 DEF StoredPairUsable
  <2>3. CASE \E q \in Proc : /\ proc[q].pc = "persist"
                             /\ session'[proc[q].fresh] = session'[pair]
    <3>1. PICK q \in Proc : /\ proc[q].pc = "persist"
                            /\ session'[proc[q].fresh] = session'[pair]
      BY <2>3
    <3>2. proc'[q] = proc[q]
      BY <1>1, <1>2, <3>1
    <3> QED
      BY <1>1, <3>1, <3>2 DEF StoredPairUsable
  <2> QED
    BY <1>i, <2>1, <2>2, <2>3
<1> QED
  BY <1>i, <1>3, <1>4, <1>5 DEF PairInv

(* A refresh whose answer is lost spoils the session. *)
LEMMA RefreshLostPair ==
  ASSUME TypeInv, PairInv, NEW p \in Proc, RefreshUnanswered(p)
  PROVE  PairInv'
<1> DEFINE k == session[proc[p].sent]
<1>1. /\ proc[p].pc = "rotate" /\ IssuePair(k) /\ pair' = pair
      /\ spoilt \subseteq spoilt' /\ k \in spoilt'
  BY DEF RefreshUnanswered, store
<1>2. /\ \A q \in Proc \ {p} : proc'[q] = proc[q]
      /\ proc'[p].pc = "idle" /\ proc'[p].sent = 0
  BY DEF RefreshUnanswered, Abort, Idle, TypeInv, TypeOK
<1> HIDE DEF k
<1>i. /\ OneGoodPair' /\ issued \in Nat /\ issued' = issued + 1
      /\ pair <= issued'
      /\ \A q \in Proc : proc[q].sent <= issued'
      /\ \A q \in Proc : proc[q].pc = "persist" =>
           /\ proc[q].fresh \in valid' \/ session'[proc[q].fresh] \in spoilt'
           /\ proc[q].fresh <= issued'
      /\ \/ pair \in valid'
         \/ session'[pair] = k
         \/ session'[pair] \in spoilt'
         \/ \E q \in Proc : /\ proc[q].pc = "persist"
                            /\ session'[proc[q].fresh] = session'[pair]
  <2>1. k = session[proc[p].sent]
    BY DEF k
  <2> QED
    BY <1>1, <2>1, RotationPair
<1>3. PersistIsFresh'
  <2> SUFFICES ASSUME NEW q \in Proc, proc'[q].pc = "persist"
               PROVE  /\ \/ proc'[q].fresh \in valid'
                         \/ session'[proc'[q].fresh] \in spoilt'
                      /\ proc'[q].fresh <= issued'
                      /\ proc'[q].fresh # pair
                      /\ \A o \in Proc : proc'[o].sent # proc'[q].fresh
                      /\ \A o \in Proc \ {q} :
                           proc'[o].pc = "persist" => proc'[o].fresh # proc'[q].fresh
    BY <1>1 DEF PersistIsFresh
  <2>1. proc[q].pc = "persist" /\ proc'[q] = proc[q]
    BY <1>2
  <2>2. /\ proc[q].fresh # pair
        /\ \A o \in Proc : proc[o].sent # proc[q].fresh
        /\ \A o \in Proc \ {q} : proc[o].pc = "persist" => proc[o].fresh # proc[q].fresh
    BY <2>1 DEF PairInv, PersistIsFresh
  <2>3. proc[q].fresh # 0
    BY <2>1, SyncAssumption DEF TypeInv, BusyHasWork, Pair
  <2>4. \A o \in Proc : proc'[o].sent # proc[q].fresh
    BY <1>2, <2>2, <2>3
  <2>5. \A o \in Proc \ {q} : proc'[o].pc = "persist" => proc'[o].fresh # proc[q].fresh
    BY <1>2, <2>2
  <2> QED
    BY <1>i, <2>1, <2>2, <2>4, <2>5
<1>4. SentWasIssued'
  <2>1. \A q \in Proc : proc'[q].sent <= issued'
    BY <1>2, <1>i
  <2> QED
    BY <1>1, <1>i, <2>1 DEF SentWasIssued
<1>5. StoredPairUsable'
  <2>1. CASE \E q \in Proc : /\ proc[q].pc = "persist"
                             /\ session'[proc[q].fresh] = session'[pair]
    <3>1. PICK q \in Proc : /\ proc[q].pc = "persist"
                            /\ session'[proc[q].fresh] = session'[pair]
      BY <2>1
    <3>2. proc'[q] = proc[q]
      BY <1>1, <1>2, <3>1
    <3> QED
      BY <1>1, <3>1, <3>2 DEF StoredPairUsable
  <2>2. CASE pair \in valid' \/ session'[pair] \in spoilt'
    BY <1>1, <2>2 DEF StoredPairUsable
  <2> QED
    BY <1>1, <1>i, <2>1, <2>2
<1> QED
  BY <1>i, <1>3, <1>4, <1>5 DEF PairInv

(* Storing a pair stores one that is good, or of a spoilt session. *)
LEMMA PersistPair ==
  ASSUME TypeInv, PairInv, NEW p \in Proc, Persist(p)
  PROVE  PairInv'
<1>1. /\ \A q \in Proc \ {p} : proc'[q] = proc[q]
      /\ proc'[p].pc = "resend" /\ proc'[p].sent = proc[p].sent
  BY GotoKept DEF Persist, TypeInv
<1>2. /\ proc[p].pc = "persist" /\ pair' = proc[p].fresh /\ spoilt' = spoilt
      /\ session' = session /\ valid' = valid /\ issued' = issued
  BY DEF Persist, server, tokens
<1>3. PersistIsFresh'
  <2>1. \A q \in Proc : proc'[q].sent = proc[q].sent
    BY <1>1
  <2> QED
    BY <1>1, <1>2, <2>1 DEF PairInv, PersistIsFresh
<1>4. /\ pair' \in valid' \/ session'[pair'] \in spoilt'
      /\ pair' <= issued'
  BY <1>2 DEF PairInv, PersistIsFresh
<1>5. OneGoodPair'
  BY <1>2 DEF PairInv, OneGoodPair
<1>6. SentWasIssued'
  BY <1>1, <1>2, <1>4 DEF PairInv, SentWasIssued
<1> QED
  BY <1>3, <1>4, <1>5, <1>6 DEF PairInv, StoredPairUsable

(* Every step of a flush keeps the pairs. *)
LEMMA FlushStepPair ==
  ASSUME TypeInv, PairInv, NEW p \in Proc, FlushStep(p)
  PROVE  PairInv'
<1>t. TypeOK
  BY DEF TypeInv
<1>1. CASE Send(p)
  <2>1. PICK stage \in Stage \ {"persist", "check", "rotate"} : Goto(p, stage)
    BY <1>1 DEF Send, Stage
  <2> QED
    BY <1>1, <1>t, <2>1, GotoKept, PairKept DEF Send, store, tokens
<1>2. CASE Resend(p)
  <2>1. PICK stage \in Stage \ {"persist", "check", "rotate"} : Goto(p, stage)
    BY <1>2 DEF Resend, Stage
  <2> QED
    BY <1>2, <1>t, <2>1, GotoKept, PairKept DEF Resend, store, tokens
<1>3. CASE Unanswered(p)
  <2>1. /\ \A q \in Proc \ {p} : proc'[q] = proc[q]
        /\ proc'[p].pc = "idle" /\ proc'[p].sent = 0
    BY <1>3, <1>t DEF Unanswered, Abort, Idle, TypeOK
  <2>2. UNCHANGED <<pair, session, issued, valid, spoilt>> /\ proc[p].pc # "persist"
    BY <1>3 DEF Unanswered, store, tokens
  <2> QED
    BY <2>1, <2>2, PairKept
<1>4. CASE OpenClient(p) \/ Refresh(p) \/ CheckToken(p) \/ RotateFails(p)
  <2>1. /\ \A q \in Proc \ {p} : proc'[q] = proc[q]
        /\ proc'[p].pc \in {"send", "renew", "check", "rotate", "resend"}
        /\ proc'[p].sent \in {0, proc[p].sent, pair}
    BY <1>4, <1>t DEF OpenClient, Refresh, CheckToken, RotateFails, GiveUpRefresh, Goto,
                      TypeOK, ProcState
  <2>2. UNCHANGED <<pair, session, issued, valid, spoilt>> /\ proc[p].pc # "persist"
    BY <1>4 DEF OpenClient, Refresh, CheckToken, RotateFails, store, server, tokens
  <2> QED
    BY <2>1, <2>2, PairKept
<1>5. CASE Rotate(p)
  BY <1>5, RotatePair
<1>6. CASE RefreshUnanswered(p)
  BY <1>6, RefreshLostPair
<1>7. CASE Persist(p)
  BY <1>7, PersistPair
<1>8. CASE CacheAnswer(p)
  BY <1>8, <1>t, GotoKept, PairKept DEF CacheAnswer, server, tokens
<1>9. CASE MarkSynced(p)
  BY <1>9, <1>t, AdvanceKept, PairKept DEF MarkSynced, server, tokens
<1>10. CASE MarkFailed(p)
  BY <1>10, <1>t, AdvanceKept, PairKept DEF MarkFailed, server, tokens
<1> QED
  BY <1>1, <1>2, <1>3, <1>4, <1>5, <1>6, <1>7, <1>8, <1>9, <1>10 DEF FlushStep

(* Every step keeps the pairs. *)
LEMMA PairStep == TypeInv /\ PairInv /\ [Next]_vars => PairInv'
<1> SUFFICES ASSUME TypeInv, PairInv, [Next]_vars PROVE PairInv'
  OBVIOUS
<1>t. TypeOK
  BY DEF TypeInv
<1>1. ASSUME NEW p \in Proc, NEW m \in Mutation, Enqueue(p, m) PROVE PairInv'
  BY <1>1, NoPairMoves DEF Enqueue, server, tokens
<1>2. ASSUME NEW p \in Proc, StartFlush(p) PROVE PairInv'
  <2>1. /\ \A q \in Proc \ {p} : proc'[q] = proc[q]
        /\ proc'[p].pc = "open" /\ proc'[p].sent = 0 /\ proc[p].pc = "idle"
    BY <1>2, <1>t DEF StartFlush, Idle, TypeOK
  <2> QED
    BY <1>2, <2>1, PairKept DEF StartFlush, store, server, tokens
<1>3. ASSUME NEW p \in Proc, Pull(p) PROVE PairInv'
  BY <1>3, NoPairMoves DEF Pull, server, tokens
<1>4. ASSUME NEW p \in Proc, Login(p) PROVE PairInv'
  BY <1>4, LoginPair
<1>5. ASSUME NEW p \in Proc, FlushStep(p) PROVE PairInv'
  BY <1>5, FlushStepPair
<1>6. ASSUME NEW p \in Proc, Crash(p) PROVE PairInv'
  <2>1. /\ \A q \in Proc \ {p} : proc'[q] = proc[q]
        /\ proc'[p].pc = "idle" /\ proc'[p].sent = 0
    BY <1>6, <1>t DEF Crash, Abort, Idle, TypeOK
  <2>2. /\ proc[p].pc = "persist" => session[proc[p].fresh] \in spoilt'
        /\ spoilt \subseteq spoilt'
    BY <1>6 DEF Crash
  <2> QED
    BY <1>6, <2>1, <2>2, PairKept DEF Crash, store, server, tokens
<1>7. CASE Expire
  BY <1>7, NoPairMoves DEF Expire, store
<1>8. CASE RivalEdit
  BY <1>8, NoPairMoves DEF RivalEdit, store, tokens
<1>9. CASE UNCHANGED vars
  BY <1>9, NoPairMoves DEF vars
<1> QED
  BY <1>1, <1>2, <1>3, <1>4, <1>5, <1>6, <1>7, <1>8, <1>9 DEF Next

-----------------------------------------------------------------------------
(* The inductive invariant holds in every state. *)
THEOREM SyncInvCorrect == Spec => []SyncInv
<1>1. SyncInv /\ [Next]_vars => SyncInv'
  BY TypeStep, AppliedStep, PairStep DEF SyncInv
<1> QED
  BY <1>1, InitInv, PTL DEF Spec

(* The queue, the token store and the steps of flush are well typed.       *)
THEOREM TypeCorrect == Spec => []TypeOK
  BY SyncInvCorrect, PTL DEF SyncInv, TypeInv

(* However many processes flush the same queue, and whatever is lost or    *)
(* killed, a mutation the queue calls synced was carried out.              *)
THEOREM SyncedCorrect == Spec => []SyncedMeansApplied
  BY SyncInvCorrect, PTL DEF SyncInv, AppliedInv

(* Concurrent rotations and sign-ins leave a refresh token in the store    *)
(* that the service has retired only in a session in which an answer was   *)
(* lost, or which was refreshed twice with one token.                      *)
THEOREM StoredPairCorrect == Spec => []StoredPairUsable
  BY SyncInvCorrect, PTL DEF SyncInv, PairInv

-----------------------------------------------------------------------------
(* The order of the queue, when one process flushes it.  With two, one may *)
(* mark failed, or send again, what the other has meanwhile synced.        *)
OneProcess == \A p, q \in Proc : p = q

(* Mutations are queued in the order of their numbers.                     *)
QueuedInOrder ==
  \A m, n \in Mutation : m < n /\ status[n] # "absent" => status[m] # "absent"

(* What is left of a list is unsynced, and no mutation that waits for its  *)
(* first try was passed over for a later one.                              *)
ListIsOpen ==
  \A p \in Proc : \A m \in proc[p].todo :
    /\ status[m] \in {"pending", "failed"}
    /\ \A k \in Mutation : k < m /\ status[k] = "pending" => k \in proc[p].todo

(* Before a mutation is carried out, all those queued earlier were tried.  *)
AppliedInOrder ==
  \A n \in applied, m \in Mutation : m < n => status[m] \in {"failed", "synced"}

OrderInv == QueuedInOrder /\ ListIsOpen /\ AppliedInOrder

(* The mutation at hand is the first of the list.                          *)
LEMMA CurrentIsFirst ==
  ASSUME TypeOK, NEW p \in Proc, proc[p].todo # {}
  PROVE  /\ Current(p) \in proc[p].todo
         /\ \A n \in proc[p].todo : Current(p) <= n
<1>1. proc[p].todo \in SUBSET Nat
  BY SyncAssumption DEF TypeOK, ProcState, Mutation
<1>2. \E m \in proc[p].todo : \A n \in proc[p].todo : m <= n
  BY <1>1, Least
<1> QED
  BY <1>2 DEF Current

(* Whatever was queued before the mutation at hand has been tried.         *)
LEMMA EarlierWereTried ==
  ASSUME TypeInv, OrderInv, NEW p \in Proc, proc[p].pc # "idle",
         NEW m \in Mutation, m < Current(p)
  PROVE  status[m] \in {"failed", "synced"}
<1>1. /\ TypeOK /\ proc[p].todo # {}
      /\ Current(p) \in Mutation
  BY BusyCurrent DEF TypeInv, BusyHasWork
<1>2. /\ Current(p) \in proc[p].todo
      /\ \A n \in proc[p].todo : Current(p) <= n
  BY <1>1, CurrentIsFirst
<1>3. status[m] # "absent"
  BY <1>1, <1>2 DEF OrderInv, ListIsOpen, QueuedInOrder
<1>4. m \in Nat /\ Current(p) \in Nat
  BY <1>1, SyncAssumption DEF Mutation
<1>5. m \notin proc[p].todo
  BY <1>2, <1>4
<1>6. status[m] # "pending"
  BY <1>2, <1>5 DEF OrderInv, ListIsOpen
<1> QED
  BY <1>1, <1>3, <1>6 DEF TypeOK

(* A step of a flush marks the mutation at hand and goes on to the next,   *)
(* or leaves the queue alone; it may have the mutation at hand carried     *)
(* out, and it may end the flush.                                          *)
Marks(p) ==
  /\ \E mark \in {"failed", "synced"} : status' = [status EXCEPT ![Current(p)] = mark]
  /\ proc'[p].todo = proc[p].todo \ {Current(p)}
  /\ applied' = applied

Works(p) ==
  /\ status' = status
  /\ proc'[p].todo \in {proc[p].todo, {}}
  /\ applied' \subseteq applied \cup {Current(p)}

(* Going on to the next mutation takes this one off the list.              *)
LEMMA AdvanceDrops ==
  ASSUME TypeOK, NEW p \in Proc, Advance(p)
  PROVE  proc'[p].todo = proc[p].todo \ {Current(p)}
<1>1. CASE proc[p].todo \ {Current(p)} = {}
  BY <1>1 DEF TypeOK, Advance, Idle
<1>2. CASE proc[p].todo \ {Current(p)} # {}
  BY <1>2 DEF TypeOK, Advance
<1> QED
  BY <1>1, <1>2

(* A change of stage leaves the list alone.                                *)
LEMMA GotoKeepsList ==
  ASSUME TypeOK, NEW p \in Proc, NEW stage, Goto(p, stage)
  PROVE  proc'[p].todo = proc[p].todo
  BY DEF TypeOK, Goto, ProcState

(* Leaving a flush drops the list.                                         *)
LEMMA AbortEmptiesList ==
  ASSUME TypeOK, NEW p \in Proc, Abort(p)
  PROVE  proc'[p].todo = {}
  BY DEF TypeOK, Abort, Idle

(* Every step of a flush does one or the other, at a mutation of the list. *)
LEMMA FlushStepShape ==
  ASSUME TypeOK, NEW p \in Proc, FlushStep(p)
  PROVE  proc[p].pc # "idle" /\ (Marks(p) \/ Works(p))
<1>1. CASE Send(p)
  <2>1. \E stage : Goto(p, stage)
    BY <1>1 DEF Send
  <2>2. applied' \subseteq applied \cup {Current(p)}
    BY <1>1 DEF Send, Patch
  <2> QED
    BY <1>1, <2>1, <2>2, GotoKeepsList DEF Send, Works, store
<1>2. CASE Resend(p)
  <2>1. \E stage : Goto(p, stage)
    BY <1>2 DEF Resend
  <2>2. applied' \subseteq applied \cup {Current(p)}
    BY <1>2 DEF Resend, Patch
  <2> QED
    BY <1>2, <2>1, <2>2, GotoKeepsList DEF Resend, Works, store
<1>3. CASE Unanswered(p)
  <2>1. applied' \subseteq applied \cup {Current(p)}
    BY <1>3 DEF Unanswered, Patch
  <2> QED
    BY <1>3, <2>1, AbortEmptiesList DEF Unanswered, Works, store
<1>4. CASE OpenClient(p) \/ Refresh(p) \/ CheckToken(p) \/ RotateFails(p)
  <2>1. proc'[p].todo = proc[p].todo
    BY <1>4 DEF OpenClient, Refresh, CheckToken, RotateFails, GiveUpRefresh, Goto,
                TypeOK, ProcState
  <2>2. status' = status /\ applied' = applied /\ proc[p].pc # "idle"
    BY <1>4 DEF OpenClient, Refresh, CheckToken, RotateFails, store
  <2> QED
    BY <2>1, <2>2 DEF Works
<1>5. CASE Rotate(p)
  <2>1. proc'[p].todo = proc[p].todo
    BY <1>5 DEF Rotate, TypeOK, ProcState
  <2> QED
    BY <1>5, <2>1 DEF Rotate, Works, store
<1>10. CASE RefreshUnanswered(p)
  BY <1>10, AbortEmptiesList DEF RefreshUnanswered, Works, store
<1>6. CASE Persist(p)
  BY <1>6, GotoKeepsList DEF Persist, Works
<1>7. CASE CacheAnswer(p)
  BY <1>7, GotoKeepsList DEF CacheAnswer, Works
<1>8. CASE MarkSynced(p)
  BY <1>8, AdvanceDrops DEF MarkSynced, Marks
<1>9. CASE MarkFailed(p)
  BY <1>9, AdvanceDrops DEF MarkFailed, Marks
<1> QED
  BY <1>1, <1>2, <1>3, <1>4, <1>5, <1>6, <1>7, <1>8, <1>9, <1>10
     DEF FlushStep

(* Marking the mutation at hand keeps the order.                           *)
LEMMA MarksInOrder ==
  ASSUME OneProcess, TypeInv, OrderInv, NEW p \in Proc, proc[p].pc # "idle", Marks(p)
  PROVE  OrderInv'
<1>1. /\ Current(p) \in proc[p].todo /\ Current(p) \in Mutation
      /\ status \in [Mutation -> {"absent", "pending", "failed", "synced"}]
  BY BusyCurrent DEF TypeInv, TypeOK
<1>2. PICK mark \in {"failed", "synced"} : status' = [status EXCEPT ![Current(p)] = mark]
  BY DEF Marks
<1>3. \A m \in Mutation : status'[m] = IF m = Current(p) THEN mark ELSE status[m]
  BY <1>1, <1>2
<1>4. QueuedInOrder'
  BY <1>1, <1>3 DEF OrderInv, QueuedInOrder, ListIsOpen
<1>5. ListIsOpen'
  <2> SUFFICES ASSUME NEW m \in proc'[p].todo
               PROVE  /\ status'[m] \in {"pending", "failed"}
                      /\ \A k \in Mutation : k < m /\ status'[k] = "pending" => k \in proc'[p].todo
    BY DEF OneProcess, ListIsOpen
  <2>1. m \in proc[p].todo /\ m # Current(p) /\ m \in Mutation
    BY DEF Marks, TypeInv, TypeOK, ProcState
  <2> QED
    BY <1>2, <1>3, <2>1 DEF OrderInv, ListIsOpen, Marks
<1>6. AppliedInOrder'
  BY <1>2, <1>3 DEF OrderInv, AppliedInOrder, Marks
<1> QED
  BY <1>4, <1>5, <1>6 DEF OrderInv

(* So does carrying it out, and giving up.                                 *)
LEMMA WorksInOrder ==
  ASSUME OneProcess, TypeInv, OrderInv, NEW p \in Proc, proc[p].pc # "idle", Works(p)
  PROVE  OrderInv'
<1>1. QueuedInOrder'
  BY DEF OrderInv, QueuedInOrder, Works
<1>2. ListIsOpen'
  BY DEF OneProcess, OrderInv, ListIsOpen, Works
<1>3. AppliedInOrder'
  BY EarlierWereTried DEF OrderInv, AppliedInOrder, Works
<1> QED
  BY <1>1, <1>2, <1>3 DEF OrderInv

(* A new list holds what is unsynced from its start on.                    *)
LEMMA ListFromTheStart ==
  ASSUME TypeOK, NEW n \in Todo, NEW k \in Mutation, k < n, status[k] = "pending"
  PROVE  k \in Todo
<1> DEFINE Before(x) == {l \in Listed : l < x}
<1>1. Listed \subseteq 1..LastMutation /\ LastMutation \in Nat
  BY SyncAssumption DEF Listed, Mutation
<1>2. IsFiniteSet(Listed)
  <2>1. 1 \in Int /\ LastMutation \in Int
    BY <1>1
  <2>2. IsFiniteSet(1..LastMutation)
    BY <2>1, FS_Interval
  <2> QED
    BY <1>1, <2>2, FS_Subset
<1>3. n \in Nat /\ k \in Nat /\ \A l \in Listed : l \in Nat
  BY <1>1 DEF Todo, Mutation
<1>4. Before(k) \subseteq Before(n) /\ Before(n) \subseteq Listed
  BY <1>3
<1>5. Cardinality(Before(k)) <= Cardinality(Before(n))
  BY <1>2, <1>4, FS_Subset
<1>6. Cardinality(Before(k)) \in Nat /\ Cardinality(Before(n)) \in Nat
  BY <1>2, <1>4, FS_Subset, FS_CardinalityType
<1>7. Cardinality(Before(n)) < Limit
  BY DEF Todo
<1>8. k \in Listed
  BY DEF Listed
<1>9. Cardinality(Before(k)) < Limit
  BY <1>5, <1>6, <1>7, SyncAssumption
<1> QED
  BY <1>8, <1>9 DEF Todo

(* A step that touches neither the queue nor a list keeps the order.       *)
LEMMA OrderUntouched ==
  ASSUME OrderInv, UNCHANGED <<status, proc, applied>>
  PROVE  OrderInv'
  BY DEF OrderInv, QueuedInOrder, ListIsOpen, AppliedInOrder

(* Every step of a lone process keeps the order.                           *)
LEMMA OrderStep == OneProcess /\ TypeInv /\ OrderInv /\ [Next]_vars => OrderInv'
<1> SUFFICES ASSUME OneProcess, TypeInv, OrderInv, [Next]_vars PROVE OrderInv'
  OBVIOUS
<1>t. TypeOK
  BY DEF TypeInv
<1>1. ASSUME NEW p \in Proc, NEW m \in Mutation, Enqueue(p, m) PROVE OrderInv'
  <2>1. \A k \in Mutation : status'[k] = IF k = m THEN "pending" ELSE status[k]
    BY <1>1, <1>t DEF Enqueue, TypeOK
  <2>2. /\ status[m] = "absent" /\ \A n \in Mutation : n < m => status[n] # "absent"
        /\ proc' = proc /\ applied' = applied /\ proc[p].todo = {}
    BY <1>1 DEF Enqueue, Idle
  <2>3. ListIsOpen'
    BY <2>2 DEF OneProcess, ListIsOpen
  <2>4. QueuedInOrder'
    <3> SUFFICES ASSUME NEW k \in Mutation, NEW n \in Mutation, k < n, status'[n] # "absent"
                 PROVE  status'[k] # "absent"
      BY DEF QueuedInOrder
    <3> QED
      BY <2>1, <2>2 DEF OrderInv, QueuedInOrder
  <2>5. AppliedInOrder'
    BY <2>1, <2>2 DEF OrderInv, AppliedInOrder
  <2> QED
    BY <2>3, <2>4, <2>5 DEF OrderInv
<1>2. ASSUME NEW p \in Proc, StartFlush(p) PROVE OrderInv'
  <2>1. proc'[p].todo = Todo /\ status' = status /\ applied' = applied
    BY <1>2, <1>t DEF StartFlush, Idle, TypeOK, store
  <2>2. ListIsOpen'
    <3> SUFFICES ASSUME NEW m \in Todo
                 PROVE  /\ status[m] \in {"pending", "failed"}
                        /\ \A k \in Mutation : k < m /\ status[k] = "pending" => k \in Todo
      BY <2>1 DEF OneProcess, ListIsOpen
    <3> QED
      BY <1>t, ListFromTheStart DEF Todo, Listed
  <2> QED
    BY <2>1, <2>2 DEF OrderInv, QueuedInOrder, AppliedInOrder
<1>3. ASSUME NEW p \in Proc, Pull(p) PROVE OrderInv'
  BY <1>3, OrderUntouched DEF Pull
<1>4. ASSUME NEW p \in Proc, Login(p) PROVE OrderInv'
  BY <1>4, OrderUntouched DEF Login
<1>5. ASSUME NEW p \in Proc, FlushStep(p) PROVE OrderInv'
  BY <1>5, <1>t, FlushStepShape, MarksInOrder, WorksInOrder
<1>6. ASSUME NEW p \in Proc, Crash(p) PROVE OrderInv'
  <2>1. Works(p)
    BY <1>6, <1>t, AbortEmptiesList DEF Crash, Works, store
  <2>2. CASE proc[p].pc # "idle"
    BY <2>1, <2>2, WorksInOrder
  <2>3. CASE applied' = applied
    BY <2>1, <2>3 DEF OneProcess, OrderInv, QueuedInOrder, ListIsOpen, AppliedInOrder, Works
  <2> QED
    BY <1>6, <2>3 DEF Crash
<1>7. CASE Expire
  BY <1>7, OrderUntouched DEF Expire, store
<1>8. CASE RivalEdit
  BY <1>8, OrderUntouched DEF RivalEdit, store
<1>9. CASE UNCHANGED vars
  BY <1>9, OrderUntouched DEF vars
<1> QED
  BY <1>1, <1>2, <1>3, <1>4, <1>5, <1>6, <1>7, <1>8, <1>9 DEF Next

(* The order holds in every state when one process flushes.                *)
LEMMA OrderCorrect ==
  ASSUME OneProcess
  PROVE  Spec => [](TypeInv /\ OrderInv)
<1>1. Init => OrderInv
  BY DEF Init, Idle, OrderInv, QueuedInOrder, ListIsOpen, AppliedInOrder
<1>2. OneProcess
  OBVIOUS
<1>3. TypeInv /\ OrderInv /\ [Next]_vars => OrderInv'
  BY <1>2, OrderStep
<1>4. SyncInv => TypeInv
  BY DEF SyncInv
<1> QED
  BY <1>1, <1>3, <1>4, SyncInvCorrect, PTL DEF Spec

(* A step marks a mutation of a list, or none loses its status.            *)
LEMMA StatusStep ==
  ASSUME OneProcess, TypeInv, OrderInv, Next, NEW m \in Mutation, status[m] = "synced"
  PROVE  status'[m] = "synced"
<1>1. ASSUME NEW p \in Proc, FlushStep(p) PROVE status'[m] = "synced"
  <2>1. CASE Marks(p) /\ proc[p].pc # "idle"
    <3>1. status[Current(p)] # "synced"
      BY <2>1, BusyCurrent DEF OrderInv, ListIsOpen
    <3> QED
      BY <2>1, <3>1 DEF Marks, TypeInv, TypeOK
  <2> QED
    BY <1>1, <2>1, FlushStepShape DEF TypeInv, Works
<1>2. ASSUME NEW p \in Proc, NEW n \in Mutation, Enqueue(p, n) PROVE status'[m] = "synced"
  BY <1>2 DEF Enqueue, TypeInv, TypeOK
<1> QED
  BY <1>1, <1>2 DEF Next, StartFlush, Pull, Login, Crash, Expire, RivalEdit, store

(* Once synced, a mutation stays synced, whatever fails, is lost or killed *)
(* in the one process that flushes.                                        *)
THEOREM SyncedStaysCorrect ==
  ASSUME OneProcess
  PROVE  Spec => SyncedStaysSynced
<1>1. TypeInv /\ OrderInv /\ [Next]_vars =>
        [\A m \in Mutation : status[m] = "synced" => status'[m] = "synced"]_vars
  BY StatusStep DEF vars
<1> QED
  BY <1>1, OrderCorrect, PTL DEF Spec, SyncedStaysSynced

(* A mutation is carried out after one that was queued later only if the   *)
(* queue has marked it failed, whatever fails, is lost or killed in the    *)
(* one process that flushes.                                               *)
THEOREM OvertakenCorrect ==
  ASSUME OneProcess
  PROVE  Spec => OvertakenOnlyWhenFailed
<1>1. ASSUME TypeInv, OrderInv, NEW m \in Mutation, NEW p \in Proc,
             proc[p].pc \in {"send", "resend"}, Current(p) = m,
             NEW n \in applied, n > m
      PROVE  status[m] = "failed"
  <2>1. status[m] \in {"pending", "failed"}
    BY <1>1, BusyCurrent DEF OrderInv, ListIsOpen
  <2>2. n \in Nat /\ m \in Nat
    BY <1>1, SyncAssumption DEF TypeInv, TypeOK, Mutation
  <2>3. status[m] \in {"failed", "synced"}
    BY <1>1, <2>2 DEF OrderInv, AppliedInOrder
  <2> QED
    BY <2>1, <2>3
<1>2. TypeInv /\ OrderInv /\ [Next]_vars =>
        [\A m \in Mutation :
           (\E p \in Proc : /\ proc[p].pc \in {"send", "resend"}
                            /\ proc'[p] # proc[p]
                            /\ Current(p) = m
                            /\ field' # field)
           /\ (\E n \in applied : n > m)
             => status[m] = "failed"]_vars
  BY <1>1
<1> QED
  BY <1>2, OrderCorrect, PTL DEF Spec, OvertakenOnlyWhenFailed
=============================================================================
