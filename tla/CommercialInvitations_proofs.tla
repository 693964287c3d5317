--------------------- MODULE CommercialInvitations_proofs ---------------------
(***************************************************************************)
(* What holds of the commercial invitations for every value of the         *)
(* constants.  The inductive invariant adds to the properties that an open *)
(* transaction writes only invitations that are still as it read them:     *)
(* pending, and for an answer with its token, its addressee and its date.  *)
(***************************************************************************)
EXTENDS CommercialInvitations, TLAPS, SequenceTheorems

\* What an open transaction found about the invitations it writes still holds.
Sound(t) ==
    /\ t.writes \subseteq Ids
    /\ \A i \in t.writes : Pending(i)
    /\ t.request.kind = "create" =>
          /\ t.adds # {}
          /\ \A i \in t.writes : invitation[i].email = t.request.email
    /\ t.request.kind # "create" => t.writes = {t.request.id}
    /\ t.request.kind \in {"accept", "decline"} =>
          /\ invitation[t.request.id].token = t.request.token
          /\ invitation[t.request.id].email = t.request.by
          /\ t.request.at < invitation[t.request.id].expires

Unanswered == \A t \in open : Sound(t)

IInv ==
    /\ TypeOK
    /\ OneOpenProposal
    /\ OneWorkspacePerAcceptance
    /\ TrialOnce
    /\ Unanswered

-----------------------------------------------------------------------------
(* The offer.                                                              *)

LEMMA PriceType ==
    ASSUME NEW p \in Plan, NEW interval \in Interval
    PROVE  Price(p, interval) \in Nat
BY DEF Plan, Interval, Price

LEMMA SnapshotType ==
    ASSUME NEW p \in Plan, NEW interval \in Interval
    PROVE  Snapshot(p, interval) \in Offer
<1>1. Price(p, interval) \in Nat
  BY PriceType
<1> QED
  BY <1>1 DEF Snapshot, Offer, Plan

\* The list of the plans an administrator can select, and the check that the
\* server makes of a plan and an interval, agree on every plan.
LEMMA ListIsCheck ==
    ASSUME NEW p \in Plan \cup {None}
    PROVE  Selectable(p) <=> \E interval \in Interval : Proposable(p, interval)
<1>1. CASE p = None
  BY <1>1 DEF Selectable, Proposable
<1>2. CASE p # None
  <2>1. p \in Plan
    BY <1>2
  <2>2. /\ Price(p, "monthly") = p.monthly /\ Price(p, "yearly") = p.yearly
        /\ Interval = {"monthly", "yearly", "none"}
    BY DEF Price, Interval
  <2>3. p.trial \in Nat /\ p.monthly \in Nat /\ p.yearly \in Nat
    BY <2>1 DEF Plan
  <2> QED
    BY <1>2, <2>2, <2>3 DEF Selectable, Proposable
<1> QED
  BY <1>1, <1>2

-----------------------------------------------------------------------------
(* Steps that write no invitation.                                         *)

LEMMA Documents ==
    ASSUME TypeOK
    PROVE  /\ Len(invitation) \in Nat /\ Ids = 1..Len(invitation) /\ Ids \subseteq Docs
           /\ \A i \in Ids : i \in Nat /\ invitation[i] \in Invitation
<1>1. Len(invitation) \in Nat /\ Ids = 1..Len(invitation)
  BY DEF TypeOK, Ids
<1> QED
  BY <1>1, ConstantsAssumption DEF TypeOK, Docs

LEMMA InitInv == Init => IInv
<1> SUFFICES ASSUME Init PROVE IInv
  OBVIOUS
<1>1. TypeOK
  BY ConstantsAssumption DEF Init, TypeOK, Times, Docs
<1>2. Ids = {}
  BY DEF Init, Ids
<1> QED
  BY <1>1, <1>2 DEF Init, IInv, OneOpenProposal, OneWorkspacePerAcceptance, TrialOnce, Unanswered

\* The invitations, their contracts and the transactions stay; a trial may be given.
LEMMA ElsewhereInv ==
    ASSUME IInv, TypeOK',
           UNCHANGED <<invitation, subscriptions>>, open' \subseteq open,
           \A u \in Users : trials'[u] = trials[u] \/ (trials[u] = 0 /\ trials'[u] = 1)
    PROVE  IInv'
<1> USE DEF IInv
<1>1. OneOpenProposal' /\ OneWorkspacePerAcceptance'
  BY DEF OneOpenProposal, OneWorkspacePerAcceptance, Ids, Pending
<1>2. TrialOnce'
  <2>1. \A u \in Users : trials[u] \in Nat /\ trials'[u] \in Nat
    BY DEF TypeOK
  <2>2. \A i \in Ids : invitation[i].email \in Users
    BY Documents DEF Invitation
  <2> QED
    BY <2>1, <2>2 DEF TrialOnce, Ids
<1>3. Unanswered'
  BY DEF Unanswered, Sound, Ids, Pending
<1> QED
  BY <1>1, <1>2, <1>3

LEMMA ReceiveInv ==
    ASSUME IInv, NEW r \in Request, Receive(r)
    PROVE  IInv'
<1>1. TypeOK'
  BY DEF IInv, TypeOK, Receive
<1>2. UNCHANGED <<invitation, subscriptions, trials, open>>
  BY DEF Receive
<1> QED
  BY <1>1, <1>2, ElsewhereInv

LEMMA RequestInv ==
    ASSUME IInv, RequestNext
    PROVE  IInv'
<1> USE DEF IInv
<1>1. now \in Times /\ Ids \subseteq Docs
  BY Documents DEF TypeOK
<1>2. ASSUME NEW s \in Slots, NEW u \in Users, NEW p \in Plans, NEW interval \in Asked,
             CreateInvitation(s, u, p, interval)
      PROVE  IInv'
  BY <1>1, <1>2, ReceiveInv, ConstantsAssumption DEF CreateInvitation, Request
<1>3. ASSUME NEW s \in Slots, NEW i \in Ids, Resend(s, i) \/ Revoke(s, i)
      PROVE  IInv'
  BY <1>1, <1>3, ReceiveInv DEF Resend, Revoke, Request
<1>4. ASSUME NEW s \in Slots, NEW i \in Ids, NEW u \in Users, NEW token \in 1..MaxToken,
             NEW kind \in {"accept", "decline"}, Answer(s, kind, u, i, token)
      PROVE  IInv'
  <2>1. token \in Nat
    BY ConstantsAssumption
  <2> QED
    BY <1>1, <1>4, <2>1, ReceiveInv DEF Answer, Request
<1> QED
  BY <1>2, <1>3, <1>4 DEF RequestNext

LEMMA IdentityInv ==
    ASSUME IInv, IdentityNext
    PROVE  IInv'
<1> USE DEF IInv
<1>1. PICK u \in Users :
         \/ Register(u) \/ CloseAccount(u) \/ Attach(u) \/ Detach(u) \/ GrantTrial(u)
  BY DEF IdentityNext
<1>2. TypeOK'
  <2>1. attached' \in [Users -> BOOLEAN]
    BY <1>1 DEF TypeOK, Register, CloseAccount, SetAccount, Attach, Detach, GrantTrial
  <2>2. account' \in [Users -> {"none", "active", "closed"}]
    BY <1>1 DEF TypeOK, Register, CloseAccount, SetAccount, Attach, Detach, GrantTrial
  <2>3. trials' \in [Users -> Nat]
    BY <1>1 DEF TypeOK, Register, CloseAccount, SetAccount, Attach, Detach, GrantTrial
  <2>4. UNCHANGED <<now, plan, invitation, subscriptions, waiting, open>>
    BY <1>1 DEF Register, CloseAccount, SetAccount, Attach, Detach, GrantTrial
  <2> QED
    BY <2>1, <2>2, <2>3, <2>4 DEF TypeOK
<1>3. UNCHANGED <<invitation, subscriptions, open>>
  BY <1>1 DEF Register, CloseAccount, SetAccount, Attach, Detach, GrantTrial
<1>4. \A v \in Users : trials'[v] = trials[v] \/ (trials[v] = 0 /\ trials'[v] = 1)
  BY <1>1 DEF TypeOK, Register, CloseAccount, SetAccount, Attach, Detach, GrantTrial
<1> QED
  BY <1>2, <1>3, <1>4, ElsewhereInv

LEMMA CatalogueInv ==
    ASSUME IInv, CatalogueNext \/ Tick
    PROVE  IInv'
<1>1. TypeOK'
  <2>1. CASE Tick
    BY <2>1, ConstantsAssumption DEF IInv, TypeOK, Tick, Times
  <2>2. CASE CatalogueNext
    BY <2>2, ConstantsAssumption
       DEF IInv, TypeOK, CatalogueNext, CreatePlan, UpdatePlan, StorePlan
  <2> QED
    BY <2>1, <2>2
<1>2. UNCHANGED <<invitation, subscriptions, trials, open>>
  BY DEF Tick, CatalogueNext, CreatePlan, UpdatePlan, StorePlan
<1> QED
  BY <1>1, <1>2, ElsewhereInv

-----------------------------------------------------------------------------
(* The transactions.                                                       *)

\* Transactions that go on write none of the invitations of a step.
LEMMA OthersStaySound ==
    ASSUME TypeOK, Unanswered, NEW W,
           open' \subseteq {o \in open : o.writes \cap W = {}},
           Ids \subseteq Ids',
           \A i \in Ids : i \notin W => invitation'[i] = invitation[i]
    PROVE  Unanswered'
<1>1. ASSUME NEW o \in open' PROVE Sound(o)'
  <2>1. o \in open /\ o.writes \cap W = {} /\ Sound(o)
    BY <1>1 DEF Unanswered
  <2>2. o.writes \subseteq Ids'
    BY <2>1 DEF Sound
  <2>3. \A i \in o.writes : i \in Ids /\ invitation'[i] = invitation[i]
    BY <2>1 DEF Sound
  <2>4. o.request.kind # "create" => o.request.id \in o.writes
    BY <2>1 DEF Sound
  <2>5. o.request.kind \in {"accept", "decline"} => o.request.kind # "create"
    OBVIOUS
  <2> QED
    BY <2>1, <2>2, <2>3, <2>4, <2>5 DEF Sound, Pending
<1> QED
  BY <1>1 DEF Unanswered

\* What a transaction writes, and in which state it found it.
LEMMA ReadSound ==
    ASSUME TypeOK, NEW r \in Request, Admissible(r)
    PROVE  LET t == [request |-> r, writes |-> Writes(r), adds |-> Adds(r)]
           IN  t \in Transaction /\ Sound(t)
<1> DEFINE t == [request |-> r, writes |-> Writes(r), adds |-> Adds(r)]
<1>1. CASE r.kind = "create"
  <2>1. r.plan \in Plans /\ r.interval \in Interval
    BY <1>1 DEF Request
  <2>2. plan[r.plan] \in Plan
    BY <1>1, <2>1 DEF Admissible, Proposable, TypeOK
  <2>3. Snapshot(plan[r.plan], r.interval) \in Offer
    BY <2>1, <2>2, SnapshotType
  <2>4. Writes(r) \subseteq Ids /\ Ids \subseteq Docs
    BY <1>1, Documents DEF Writes, Lapsed, PendingOf
  <2>5. t \in Transaction
    BY <1>1, <2>3, <2>4 DEF Transaction, Adds
  <2>6. \A i \in Writes(r) : Pending(i) /\ invitation[i].email = r.email
    BY <1>1 DEF Writes, Lapsed, PendingOf
  <2> QED
    BY <1>1, <2>4, <2>5, <2>6 DEF Sound, Adds
<1>2. CASE r.kind # "create"
  <2>1. r.id \in Docs /\ r.kind \in {"resend", "revoke", "accept", "decline"}
    BY <1>2 DEF Request
  <2>2. Answerable(r.id, r.at)
    BY <2>1 DEF Admissible, LinkOpen
  <2>3. r.kind \in {"accept", "decline"} =>
           LinkOpen(r.id, r.token, r.at) /\ invitation[r.id].email = r.by
    BY DEF Admissible
  <2>4. Writes(r) = {r.id} /\ Adds(r) = {}
    BY <1>2 DEF Writes, Adds
  <2>5. t \in Transaction
    BY <2>1, <2>4 DEF Transaction
  <2>6. invitation[r.id].expires \in Nat
    BY <2>2, Documents DEF Answerable, Invitation
  <2>7. r.at \in Nat
    BY <1>2, ConstantsAssumption DEF Request, Times
  <2> QED
    BY <1>2, <2>2, <2>3, <2>4, <2>5, <2>6, <2>7 DEF Sound, Answerable, LinkOpen
<1> QED
  BY <1>1, <1>2

LEMMA ServeInv ==
    ASSUME IInv, \/ \E r \in waiting : Read(r) \/ Refuse(r)
                 \/ \E t \in open : Abort(t) \/ Retry(t)
    PROVE  IInv'
<1> USE DEF IInv
<1>1. ASSUME NEW r \in waiting, Refuse(r)
      PROVE  IInv'
  <2>1. TypeOK'
    BY <1>1 DEF Refuse, TypeOK
  <2>2. UNCHANGED <<invitation, subscriptions, trials, open>>
    BY <1>1 DEF Refuse
  <2> QED
    BY <2>1, <2>2, ElsewhereInv
<1>2. ASSUME NEW t \in open, Abort(t) \/ Retry(t)
      PROVE  IInv'
  <2>1. TypeOK'
    BY <1>2 DEF Abort, Retry, TypeOK, Transaction
  <2>2. UNCHANGED <<invitation, subscriptions, trials>> /\ open' \subseteq open
    BY <1>2 DEF Abort, Retry
  <2> QED
    BY <2>1, <2>2, ElsewhereInv
<1>3. ASSUME NEW r \in waiting, Read(r)
      PROVE  IInv'
  <2> DEFINE t == [request |-> r, writes |-> Writes(r), adds |-> Adds(r)]
  <2>1. /\ r \in Request /\ Admissible(r)
        /\ open' = open \cup {t} /\ waiting' = waiting \ {r}
        /\ UNCHANGED <<now, plan, account, attached, trials, invitation, subscriptions>>
    BY <1>3 DEF Read, TypeOK
  <2>2. t \in Transaction /\ Sound(t)
    BY <2>1, ReadSound
  <2> HIDE DEF t
  <2>3. TypeOK'
    BY <2>1, <2>2 DEF TypeOK
  <2>4. OneOpenProposal' /\ OneWorkspacePerAcceptance' /\ TrialOnce'
    BY <2>1 DEF OneOpenProposal, OneWorkspacePerAcceptance, TrialOnce, Ids, Pending
  <2>5. Unanswered'
    BY <2>1, <2>2 DEF Unanswered, Sound, Ids, Pending
  <2> QED
    BY <2>3, <2>4, <2>5
<1> QED
  BY <1>1, <1>2, <1>3

LEMMA LapseInv ==
    ASSUME IInv, NEW i \in Ids, LapseListed(i)
    PROVE  IInv'
<1> USE DEF IInv
<1>1. /\ Pending(i)
      /\ invitation' = [invitation EXCEPT ![i].status = "expired"]
      /\ open' = open \ Writing({i}) /\ waiting' = waiting \cup {o.request : o \in Writing({i})}
      /\ UNCHANGED <<now, plan, account, attached, trials, subscriptions>>
  BY DEF LapseListed, Aborting
<1>2. /\ Len(invitation) \in Nat /\ Ids = 1..Len(invitation)
      /\ \A j \in Ids : invitation[j] \in Invitation
  BY Documents
<1>3. Ids' = Ids
  BY <1>1 DEF Ids
<1>4. /\ invitation'[i] = [invitation[i] EXCEPT !.status = "expired"]
      /\ \A j \in Ids : j # i => invitation'[j] = invitation[j]
  BY <1>1 DEF Ids
<1>5. invitation'[i] \in Invitation /\ invitation'[i].status = "expired"
  BY <1>2, <1>4 DEF Invitation
<1>6. TypeOK'
  <2>1. invitation' \in Seq(Invitation) /\ Len(invitation') <= MaxInvites
    BY <1>1, <1>2, <1>4, <1>5 DEF TypeOK, Ids
  <2>2. waiting' \subseteq Request /\ open' \subseteq Transaction
    BY <1>1 DEF TypeOK, Transaction, Writing
  <2> QED
    BY <1>1, <2>1, <2>2 DEF TypeOK
<1>7. OneOpenProposal'
  <2>1. \A j \in Ids : Pending(j)' => Pending(j) /\ invitation'[j] = invitation[j]
    BY <1>4, <1>5 DEF Pending
  <2> QED
    BY <1>3, <2>1 DEF OneOpenProposal
<1>8. OneWorkspacePerAcceptance'
  BY <1>1, <1>3, <1>4, <1>5 DEF OneWorkspacePerAcceptance, Pending
<1>9. TrialOnce'
  BY <1>1, <1>3, <1>4, <1>5 DEF TrialOnce
<1>10. Unanswered'
  <2>1. open' \subseteq {o \in open : o.writes \cap {i} = {}}
    BY <1>1 DEF Writing
  <2> QED
    BY <1>3, <1>4, <2>1, OthersStaySound
<1> QED
  BY <1>6, <1>7, <1>8, <1>9, <1>10

-----------------------------------------------------------------------------
(* The commit.                                                             *)

\* What an edit leaves is a document of the same address and offer.
LEMMA EditedType ==
    ASSUME NEW r \in Request, NEW d \in Invitation
    PROVE  /\ Edited(r, d) \in Invitation
           /\ Edited(r, d).email = d.email /\ Edited(r, d).offer = d.offer
           /\ Edited(r, d).status =
                 IF r.kind = "create" THEN "expired"
                 ELSE IF r.kind = "revoke" THEN "revoked"
                 ELSE IF r.kind = "decline" THEN "declined"
                 ELSE IF r.kind = "accept" THEN "accepted" ELSE d.status
           /\ r.kind # "resend" => Edited(r, d).token = d.token
<1>1. r.kind \in {"create", "resend", "revoke", "decline", "accept"}
  BY DEF Request
<1>2. CASE r.kind = "resend"
  <2>1. r.at \in Nat
    BY <1>2, ConstantsAssumption DEF Request, Times
  <2>2. Edited(r, d) = [d EXCEPT !.token = @ + 1, !.expires = r.at + Window]
    BY <1>2 DEF Edited
  <2>3. d.token + 1 \in Nat /\ r.at + Window \in Nat
    BY <2>1, ConstantsAssumption DEF Invitation
  <2> QED
    BY <1>2, <2>2, <2>3 DEF Invitation
<1>3. CASE r.kind # "resend"
  <2> DEFINE after == IF r.kind = "create" THEN "expired"
                      ELSE IF r.kind = "revoke" THEN "revoked"
                      ELSE IF r.kind = "decline" THEN "declined" ELSE "accepted"
  <2>1. Edited(r, d) = [d EXCEPT !.status = after]
    BY <1>1, <1>3 DEF Edited
  <2> QED
    BY <1>1, <1>3, <2>1 DEF Invitation
<1> QED
  BY <1>2, <1>3

LEMMA CreatedType ==
    ASSUME NEW t \in Transaction, t.request.kind = "create", t.adds # {}
    PROVE  /\ Created(t) \in Invitation
           /\ Created(t).email = t.request.email /\ Created(t).status = "pending"
<1>1. t.request \in Request /\ t.adds \subseteq Offer
  BY DEF Transaction
<1>2. t.request.email \in Users /\ t.request.plan \in Plans /\ t.request.at \in Nat
  BY <1>1, ConstantsAssumption DEF Request, Times
<1>3. (CHOOSE o \in t.adds : TRUE) \in Offer
  BY <1>1
<1>4. t.request.at + Window \in Nat
  BY <1>2, ConstantsAssumption
<1> QED
  BY <1>2, <1>3, <1>4 DEF Created, Invitation

\* What a commit makes of the documents.
LEMMA CommitStep ==
    ASSUME TypeOK, Unanswered, NEW t \in open, Commit(t)
    PROVE  /\ invitation' \in Seq(Invitation) /\ Len(invitation') <= MaxInvites
           /\ Ids \subseteq Ids'
           /\ \A i \in Ids : invitation'[i] = IF i \in t.writes
                                              THEN Edited(t.request, invitation[i])
                                              ELSE invitation[i]
           /\ t.request.kind # "create" => Ids' = Ids
           /\ t.request.kind = "create" =>
                 /\ Len(invitation) + 1 \notin Ids
                 /\ Ids' = Ids \cup {Len(invitation) + 1}
                 /\ invitation'[Len(invitation) + 1] = Created(t)
<1> DEFINE written == [i \in Ids |-> IF i \in t.writes THEN Edited(t.request, invitation[i])
                                     ELSE invitation[i]]
<1>1. t \in Transaction /\ t.request \in Request /\ Sound(t)
  BY DEF TypeOK, Transaction, Unanswered
<1>2. /\ Len(invitation) \in Nat /\ Ids = 1..Len(invitation)
      /\ \A i \in Ids : invitation[i] \in Invitation
  BY Documents
<1>3. \A i \in Ids : written[i] \in Invitation
  BY <1>1, <1>2, EditedType
<1>4. written \in Seq(Invitation) /\ Len(written) = Len(invitation)
  <2>1. written \in [1..Len(invitation) -> Invitation]
    BY <1>2, <1>3
  <2> QED
    BY <1>2, <2>1
<1>5. \A i \in Ids : written[i] = IF i \in t.writes THEN Edited(t.request, invitation[i])
                                  ELSE invitation[i]
  OBVIOUS
<1>6. /\ invitation' = IF t.request.kind = "create" THEN Append(written, Created(t)) ELSE written
      /\ t.request.kind = "create" => Len(invitation) < MaxInvites
  BY DEF Commit, Room
<1> HIDE DEF written
<1>7. CASE t.request.kind = "create"
  <2>1. Created(t) \in Invitation
    BY <1>1, <1>7, CreatedType DEF Sound
  <2>2. invitation' = Append(written, Created(t))
    BY <1>6, <1>7
  <2>3. /\ invitation' \in Seq(Invitation) /\ Len(invitation') = Len(invitation) + 1
        /\ \A i \in 1..Len(invitation) : invitation'[i] = written[i]
        /\ invitation'[Len(invitation) + 1] = Created(t)
    BY <1>2, <1>4, <2>1, <2>2
  <2>4. Ids' = 1..(Len(invitation) + 1)
    BY <2>3 DEF Ids
  <2>5. Len(invitation) + 1 <= MaxInvites
    BY <1>2, <1>6, <1>7, ConstantsAssumption
  <2> QED
    BY <1>2, <1>5, <1>7, <2>3, <2>4, <2>5
<1>8. CASE t.request.kind # "create"
  <2>1. invitation' = written /\ Len(invitation) <= MaxInvites
    BY <1>6, <1>8 DEF TypeOK
  <2> QED
    BY <1>2, <1>4, <1>5, <1>8, <2>1 DEF Ids
<1> QED
  BY <1>7, <1>8

LEMMA CommitInv ==
    ASSUME IInv, NEW t \in open, Commit(t)
    PROVE  IInv'
<1> USE DEF IInv
<1> DEFINE r == t.request
           n == Len(invitation) + 1
<1>1. /\ t \in Transaction /\ r \in Request /\ Sound(t)
      /\ t.writes \subseteq Ids /\ \A i \in t.writes : Pending(i)
  BY DEF TypeOK, Transaction, Unanswered, Sound
<1>2. /\ invitation' \in Seq(Invitation) /\ Len(invitation') <= MaxInvites
      /\ Ids \subseteq Ids'
      /\ \A i \in Ids : invitation'[i] = IF i \in t.writes
                                         THEN Edited(r, invitation[i]) ELSE invitation[i]
      /\ r.kind # "create" => Ids' = Ids
      /\ r.kind = "create" =>
            /\ n \notin Ids
            /\ Ids' = Ids \cup {n}
            /\ invitation'[n] = Created(t)
  BY CommitStep
<1>3. /\ IndexesAllow(t)
      /\ subscriptions' = IF r.kind = "accept" THEN [subscriptions EXCEPT ![r.id] = @ + 1]
                          ELSE subscriptions
      /\ attached' = IF r.kind = "accept" THEN [attached EXCEPT ![r.by] = TRUE] ELSE attached
      /\ trials' = IF Consumes(t) THEN [trials EXCEPT ![r.by] = @ + 1] ELSE trials
      /\ open' = open \ ((Writing(t.writes) \ {t}) \cup {t})
      /\ waiting' = waiting \cup {o.request : o \in Writing(t.writes) \ {t}}
      /\ UNCHANGED <<now, plan, account>>
  BY DEF Commit, Aborting
<1>4. /\ Ids \subseteq Docs /\ \A i \in Ids : invitation[i] \in Invitation
      /\ Len(invitation) \in Nat /\ Ids = 1..Len(invitation)
  BY Documents
<1>5. r.kind = "create" =>
         /\ Created(t) \in Invitation
         /\ Created(t).email = r.email /\ Created(t).status = "pending"
         /\ \A i \in t.writes : invitation[i].email = r.email
  BY <1>1, CreatedType DEF Sound
<1>6. \A i \in t.writes :
         /\ Edited(r, invitation[i]) \in Invitation
         /\ Edited(r, invitation[i]).email = invitation[i].email
         /\ Edited(r, invitation[i]).offer = invitation[i].offer
         /\ Edited(r, invitation[i]).status =
               IF r.kind = "create" THEN "expired"
               ELSE IF r.kind = "revoke" THEN "revoked"
               ELSE IF r.kind = "decline" THEN "declined"
               ELSE IF r.kind = "accept" THEN "accepted" ELSE invitation[i].status
  BY <1>1, <1>4, EditedType
<1>7. r.kind # "create" => t.writes = {r.id} /\ r.id \in Docs
  BY <1>1 DEF Sound, Request
<1>8. r.kind = "accept" => r.by \in Users /\ invitation[r.id].email = r.by
  BY <1>1 DEF Sound, Request
<1>9. TypeOK'
  <2>1. subscriptions' \in [Docs -> Nat]
    BY <1>3, <1>7 DEF TypeOK
  <2>2. attached' \in [Users -> BOOLEAN]
    BY <1>3, <1>8 DEF TypeOK
  <2>3. trials' \in [Users -> Nat]
    BY <1>3, <1>8 DEF TypeOK, Consumes
  <2>4. waiting' \subseteq Request /\ open' \subseteq Transaction
    BY <1>3 DEF TypeOK, Transaction, Writing
  <2> QED
    BY <1>2, <1>3, <2>1, <2>2, <2>3, <2>4 DEF TypeOK
<1>10. OneOpenProposal'
  <2>1. ASSUME NEW i \in Ids, Pending(i)'
        PROVE  /\ Pending(i) /\ invitation'[i].email = invitation[i].email
               /\ r.kind = "create" => i \notin t.writes
    <3>1. CASE i \notin t.writes
      BY <1>2, <2>1, <3>1 DEF Pending
    <3>2. CASE i \in t.writes
      BY <1>1, <1>2, <1>6, <2>1, <3>2 DEF Pending
    <3> QED
      BY <3>1, <3>2
  <2>2. ASSUME r.kind = "create", NEW i \in Ids, Pending(i)'
        PROVE  invitation'[i].email # invitation'[n].email
    <3>1. PendingOf(r.email) \subseteq t.writes
      BY <1>3, <2>2 DEF IndexesAllow
    <3>2. Pending(i) /\ i \notin t.writes /\ invitation'[i].email = invitation[i].email
      BY <2>1, <2>2
    <3> QED
      BY <1>2, <1>5, <2>2, <3>1, <3>2 DEF PendingOf
  <2>3. ASSUME NEW i \in Ids', NEW j \in Ids', Pending(i)', Pending(j)',
               invitation'[i].email = invitation'[j].email
        PROVE  i = j
    <3>1. CASE i \in Ids /\ j \in Ids
      BY <2>1, <2>3, <3>1 DEF OneOpenProposal
    <3>2. CASE i \notin Ids \/ j \notin Ids
      BY <1>2, <2>2, <2>3, <3>2
    <3> QED
      BY <3>1, <3>2
  <2> QED
    BY <2>3 DEF OneOpenProposal
<1>11. OneWorkspacePerAcceptance'
  <2>1. ASSUME NEW i \in Docs, i \notin t.writes
        PROVE  subscriptions'[i] = IF i \in Ids' /\ invitation'[i].status = "accepted"
                                   THEN 1 ELSE 0
    <3>1. subscriptions'[i] = subscriptions[i]
      BY <1>3, <1>7, <2>1 DEF TypeOK
    <3>2. (i \in Ids' /\ invitation'[i].status = "accepted")
             <=> (i \in Ids /\ invitation[i].status = "accepted")
      BY <1>2, <1>5, <2>1
    <3> QED
      BY <2>1, <3>1, <3>2 DEF OneWorkspacePerAcceptance
  <2>2. ASSUME NEW i \in Docs, i \in t.writes
        PROVE  subscriptions'[i] = IF i \in Ids' /\ invitation'[i].status = "accepted"
                                   THEN 1 ELSE 0
    <3>1. i \in Ids /\ i \in Ids' /\ Pending(i) /\ subscriptions[i] = 0
      BY <1>1, <1>2, <2>2 DEF OneWorkspacePerAcceptance, Pending
    <3>2. invitation'[i] = Edited(r, invitation[i])
      BY <1>2, <2>2, <3>1
    <3>3. CASE r.kind = "accept"
      <4>1. i = r.id /\ subscriptions'[i] = 1
        BY <1>3, <1>7, <2>2, <3>1, <3>3 DEF TypeOK
      <4> QED
        BY <1>6, <2>2, <3>1, <3>2, <3>3, <4>1
    <3>4. CASE r.kind # "accept"
      <4>1. subscriptions'[i] = 0
        BY <1>3, <3>1, <3>4
      <4>2. invitation'[i].status # "accepted"
        BY <1>6, <2>2, <3>1, <3>2, <3>4 DEF Pending
      <4> QED
        BY <4>1, <4>2
    <3> QED
      BY <3>3, <3>4
  <2> QED
    BY <2>1, <2>2 DEF OneWorkspacePerAcceptance
<1>12. TrialOnce'
  <2> DEFINE Won(i) == invitation[i].status = "accepted" /\ invitation[i].offer.trial > 0
  <2>1. \A u \in Users : trials[u] \in Nat /\ trials[u] <= 1
    BY DEF TypeOK, TrialOnce
  <2>2. \A i, j \in Ids : Won(i) /\ Won(j) /\ invitation[i].email = invitation[j].email
                             => i = j /\ trials[invitation[i].email] = 1
    BY DEF TrialOnce
  <2>3. \A i \in Ids : invitation[i].email \in Users /\ invitation'[i].email = invitation[i].email
    BY <1>2, <1>4, <1>6 DEF Invitation
  <2>4. CASE Consumes(t)
    <3>1. r.kind = "accept" /\ trials[r.by] = 0 /\ r.by \in Users /\ t.writes = {r.id}
      BY <1>3, <1>7, <1>8, <2>4 DEF Consumes, IndexesAllow
    <3>2. /\ trials'[r.by] = 1
          /\ \A u \in Users : u # r.by => trials'[u] = trials[u]
      BY <1>3, <2>4, <3>1 DEF TypeOK
    <3>3. Ids' = Ids /\ r.id \in Ids /\ invitation[r.id].email = r.by
      BY <1>1, <1>2, <1>8, <3>1
    <3>4. \A i \in Ids : i # r.id /\ Won(i)' => Won(i) /\ invitation[i].email # r.by
      <4>1. ASSUME NEW i \in Ids, i # r.id, Won(i)'
            PROVE  Won(i) /\ invitation[i].email # r.by
        <5>1. Won(i)
          BY <1>2, <3>1, <4>1
        <5>2. trials[invitation[i].email] = 1
          BY <2>2, <5>1
        <5> QED
          BY <3>1, <5>1, <5>2
      <4> QED
        BY <4>1
    <3>5. \A u \in Users : trials'[u] <= 1
      BY <2>1, <3>2
    <3> HIDE DEF r
    <3>6. ASSUME NEW i \in Ids', NEW j \in Ids', Won(i)', Won(j)',
                 invitation'[i].email = invitation'[j].email
          PROVE  i = j /\ trials'[invitation'[i].email] = 1
      <4>1. i \in Ids /\ j \in Ids
        BY <3>3
      <4>2. CASE i = r.id \/ j = r.id
        BY <2>3, <3>2, <3>3, <3>4, <3>6, <4>1, <4>2
      <4>3. CASE i # r.id /\ j # r.id
        BY <2>2, <2>3, <3>2, <3>4, <3>6, <4>1, <4>3
      <4> QED
        BY <4>2, <4>3
    <3> QED
      BY <3>5, <3>6 DEF TrialOnce
  <2>5. CASE ~Consumes(t)
    <3>1. trials' = trials
      BY <1>3, <2>5
    <3>2. ASSUME NEW i \in Ids', Won(i)' PROVE i \in Ids /\ Won(i)
      <4>1. CASE i \notin Ids
        BY <1>2, <1>5, <3>2, <4>1
      <4>2. CASE i \in Ids /\ i \notin t.writes
        BY <1>2, <3>2, <4>2
      <4>3. CASE i \in Ids /\ i \in t.writes
        <5>1. invitation'[i] = Edited(r, invitation[i]) /\ Pending(i)
          BY <1>1, <1>2, <4>3
        <5>2. r.kind = "accept"
          BY <1>6, <3>2, <4>3, <5>1 DEF Pending
        <5>3. i = r.id /\ invitation'[i].offer = invitation[i].offer
          BY <1>6, <1>7, <4>3, <5>1, <5>2
        <5> QED
          BY <2>5, <3>2, <5>2, <5>3 DEF Consumes
      <4> QED
        BY <4>1, <4>2, <4>3
    <3>3. ASSUME NEW i \in Ids', NEW j \in Ids', Won(i)', Won(j)',
                 invitation'[i].email = invitation'[j].email
          PROVE  i = j /\ trials'[invitation'[i].email] = 1
      BY <2>2, <2>3, <3>1, <3>2, <3>3
    <3> QED
      BY <2>1, <3>1, <3>3 DEF TrialOnce
  <2> QED
    BY <2>4, <2>5
<1>13. Unanswered'
  <2>1. open' \subseteq {o \in open : o.writes \cap t.writes = {}}
    BY <1>3 DEF Writing
  <2> QED
    BY <1>2, <2>1, OthersStaySound
<1> QED
  BY <1>9, <1>10, <1>11, <1>12, <1>13

LEMMA Induction == IInv /\ [Next]_vars => IInv'
<1> SUFFICES ASSUME IInv, [Next]_vars PROVE IInv'
  OBVIOUS
<1>1. CASE Tick \/ CatalogueNext
  BY <1>1, CatalogueInv
<1>2. CASE RequestNext
  BY <1>2, RequestInv
<1>3. CASE TransactionNext
  BY <1>3, ServeInv, CommitInv, LapseInv DEF TransactionNext
<1>4. CASE IdentityNext
  BY <1>4, IdentityInv
<1>5. CASE UNCHANGED vars
  <2>1. TypeOK'
    BY <1>5 DEF IInv, TypeOK, vars
  <2>2. UNCHANGED <<invitation, subscriptions, trials, open>>
    BY <1>5 DEF vars
  <2> QED
    BY <2>1, <2>2, ElsewhereInv
<1> QED
  BY <1>1, <1>2, <1>3, <1>4, <1>5 DEF Next

-----------------------------------------------------------------------------
(* The theorems.                                                           *)

\* The invariant holds at the start and every step of every request, of the
\* catalogue and of the identities keeps it.
THEOREM Inductive == Spec => []IInv
BY InitInv, Induction, PTL DEF Spec

\* Documents, requests and transactions keep their shape.
THEOREM TypeCorrect == Spec => []TypeOK
<1>1. IInv => TypeOK
  BY DEF IInv
<1> QED
  BY <1>1, Inductive, PTL

\* createCommercialInvitation: for any number of administrators and retries,
\* an address never has two proposals open.
THEOREM OneOpenProposalHolds == Spec => []OneOpenProposal
<1>1. IInv => OneOpenProposal
  BY DEF IInv
<1> QED
  BY <1>1, Inductive, PTL

\* acceptCommercialInvitation: acceptances and workspaces are one to one.
THEOREM OneWorkspaceHolds == Spec => []OneWorkspacePerAcceptance
<1>1. IInv => OneWorkspacePerAcceptance
  BY DEF IInv
<1> QED
  BY <1>1, Inductive, PTL

\* recordTrialConsumption: an identity has one trial, whatever ways lead to it.
THEOREM TrialOnceHolds == Spec => []TrialOnce
<1>1. IInv => TrialOnce
  BY DEF IInv
<1> QED
  BY <1>1, Inductive, PTL

\* listCommercialInvitationOffers and assertCommercialInvitationPlan agree on
\* every plan and every state of the catalogue.
THEOREM SelectableHolds == Spec => []SelectableIsProposable
<1>1. IInv => SelectableIsProposable
  <2>1. ASSUME IInv, NEW p \in Plans
        PROVE  Selectable(plan[p]) <=> \E interval \in Interval : Proposable(plan[p], interval)
    <3>1. plan[p] \in Plan \cup {None}
      BY <2>1 DEF IInv, TypeOK
    <3> QED
      BY <3>1, ListIsCheck
  <2> QED
    BY <2>1 DEF SelectableIsProposable
<1> QED
  BY <1>1, Inductive, PTL

\* A step that changes the status of an invitation finds it pending; an answer
\* is that of its addressee, with the token and before the date in force.
LEMMA AnswerStep ==
    ASSUME IInv, [Next]_vars, NEW i \in Ids, invitation'[i].status # invitation[i].status
    PROVE  /\ Pending(i)
           /\ invitation'[i].token = invitation[i].token
           /\ invitation'[i].status \in {"accepted", "declined"} =>
                 \E t \in open :
                    /\ t.request.kind \in {"accept", "decline"}
                    /\ t.request.id = i
                    /\ t.request.by = invitation[i].email
                    /\ t.request.token = invitation[i].token
                    /\ t.request.at < invitation[i].expires
<1> USE DEF IInv
<1>1. \/ \E t \in open : Commit(t)
      \/ \E j \in Ids : LapseListed(j)
  BY DEF Next, vars, Tick, CatalogueNext, CreatePlan, UpdatePlan, StorePlan, RequestNext,
         CreateInvitation, Resend, Revoke, Answer, Receive, TransactionNext, Read, Refuse,
         Abort, Retry, IdentityNext, Register, CloseAccount, SetAccount, Attach, Detach,
         GrantTrial
<1>2. CASE \E j \in Ids : LapseListed(j)
  BY <1>2 DEF LapseListed, Ids, Pending
<1>3. ASSUME NEW t \in open, Commit(t)
      PROVE  /\ Pending(i)
             /\ invitation'[i].token = invitation[i].token
             /\ invitation'[i].status \in {"accepted", "declined"} =>
                   /\ t.request.kind \in {"accept", "decline"}
                   /\ t.request.id = i
                   /\ t.request.by = invitation[i].email
                   /\ t.request.token = invitation[i].token
                   /\ t.request.at < invitation[i].expires
  <2>1. t.request \in Request /\ Sound(t)
    BY <1>3 DEF TypeOK, Transaction, Unanswered
  <2>2. i \in t.writes /\ invitation'[i] = Edited(t.request, invitation[i])
    BY <1>3, CommitStep
  <2>3. Pending(i) /\ invitation[i] \in Invitation
    BY <2>1, <2>2, Documents DEF Sound
  <2>4. t.request.kind # "resend"
    BY <2>1, <2>2, <2>3, EditedType DEF Pending
  <2>5. invitation'[i].token = invitation[i].token
    BY <2>1, <2>2, <2>3, <2>4, EditedType
  <2>6. invitation'[i].status \in {"accepted", "declined"} =>
           t.request.kind \in {"accept", "decline"}
    BY <2>1, <2>2, <2>3, <2>4, EditedType DEF Request
  <2>7. t.request.kind \in {"accept", "decline"} => t.request.id = i
    BY <2>1, <2>2 DEF Sound
  <2> QED
    BY <2>1, <2>3, <2>5, <2>6, <2>7 DEF Sound
<1> QED
  BY <1>1, <1>2, <1>3

\* Answers, resends, revocations and lapses: a link dies at once and an answer
\* is never changed, for any number of requests and retries.
THEOREM LinksDie == Spec => LinksDieAtOnce
<1>1. IInv /\ [Next]_vars =>
         [\A i \in Ids :
             invitation'[i].status # invitation[i].status =>
                /\ Pending(i)
                /\ invitation'[i].token = invitation[i].token
                /\ invitation'[i].status \in {"accepted", "declined"} =>
                      \E t \in open :
                         /\ t.request.kind \in {"accept", "decline"}
                         /\ t.request.id = i
                         /\ t.request.by = invitation[i].email
                         /\ t.request.token = invitation[i].token
                         /\ t.request.at < invitation[i].expires]_vars
  BY AnswerStep
<1> QED
  BY <1>1, Inductive, PTL DEF Spec, LinksDieAtOnce
=============================================================================
