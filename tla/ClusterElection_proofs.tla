----------------------- MODULE ClusterElection_proofs -----------------------
(***************************************************************************)
(* The election of the serving cluster manager, for any number of managers, *)
(* candidatures and changes: whoever serves was elected by more than half,  *)
(* and as long as no candidate goes back to an earlier term, a manager      *)
(* votes once in a term and no two serve in one.                            *)
(***************************************************************************)
EXTENDS ClusterElection, FiniteSetTheorems, SequenceTheorems, TLAPS

\* Terms after e candidatures, and places of entries after as many changes.
UpTo(e) == DEFAULT_DATA..(e - 1)
Roles == {"absent", "follower", "candidate", "leader"}

\* The states of one manager.
Processes(e, u) ==
  [role : Roles, term : UpTo(e), leaderId : Managers \cup {NoOne},
   index : UpTo(u), logTerm : UpTo(e),
   lastVoteTerm : UpTo(e), lastVoteFor : Managers \cup {NoOne}, voters : SUBSET Managers,
   asks : Nat, isFreshman : BOOLEAN, data : Seq(Nat)]

\* The messages of each type.  An entry is sent with the place of the one before it.
Plain(type, e, u) ==
  [type : {type}, id : Managers, term : UpTo(e), index : UpTo(u), logTerm : UpTo(e), data : {None}]
Entries(e, u) ==
  [type : {"appendEntry"}, id : Managers, term : UpTo(e), index : UpTo(u - 1), logTerm : UpTo(e),
   data : {d \in Seq(Nat) : Len(d) = 1}]
Snapshots(e, u) ==
  [type : {"installSnapshot"}, id : Managers, term : UpTo(e), index : UpTo(u), logTerm : UpTo(e),
   data : Seq(Nat)]
Answers(e) ==
  [type : {"responseVote"}, id : Managers, voteGranted : BOOLEAN, term : UpTo(e),
   voteForTerm : UpTo(e), voter : Managers]

\* What a manager gets depends on the topics it has subscribed to in its role.
Mail(role, e, u) ==
  {m \in Plain("heartbeart", e, u) : role # "absent"}
    \cup {m \in Plain("requestVote", e, u) : role \in {"follower", "candidate"}}
    \cup {m \in Answers(e) : role = "candidate"}
    \cup {m \in Entries(e, u) : role = "follower"}
    \cup {m \in Snapshots(e, u) : role \in {"follower", "leader"}}
AnyMail(e, u) == UNION {Mail(role, e, u) : role \in Roles}

Of(q) == {q[i] : i \in 1..Len(q)}

States(e, u) == [of : [Managers -> Processes(e, u)], inbox : [Managers -> Seq(AnyMail(e, u))]]
Formed(s, e, u) ==
  s \in States(e, u) /\ \A k \in Managers : Of(s.inbox[k]) \subseteq Mail(s.of[k].role, e, u)

-----------------------------------------------------------------------------
(* Sequences                                                                *)

LEMMA OfAppend ==
  ASSUME NEW S, NEW q \in Seq(S), NEW x \in S
  PROVE  Append(q, x) \in Seq(S) /\ Of(Append(q, x)) = Of(q) \cup {x}
BY DEF Of

LEMMA OfTail ==
  ASSUME NEW S, NEW q \in Seq(S), q # <<>>
  PROVE  Tail(q) \in Seq(S) /\ Of(Tail(q)) \subseteq Of(q) /\ Head(q) \in Of(q)
BY DEF Of

LEMMA OfNone == Of(None) = {}
BY DEF Of, None

LEMMA MailIsAny ==
  ASSUME NEW role \in Roles, NEW e, NEW u PROVE Mail(role, e, u) \subseteq AnyMail(e, u)
BY DEF AnyMail

\* More candidatures and changes leave everything formed.
LEMMA Grows ==
  ASSUME NEW e \in Nat, NEW u \in Nat, NEW f \in Nat, NEW v \in Nat, e <= f, u <= v
  PROVE  /\ Processes(e, u) \subseteq Processes(f, v)
         /\ \A role : Mail(role, e, u) \subseteq Mail(role, f, v)
         /\ AnyMail(e, u) \subseteq AnyMail(f, v)
<1>1. UpTo(e) \subseteq UpTo(f) /\ UpTo(u) \subseteq UpTo(v) /\ UpTo(u - 1) \subseteq UpTo(v - 1)
  BY DEF UpTo, DEFAULT_DATA
<1>2. Processes(e, u) \subseteq Processes(f, v)
  BY <1>1 DEF Processes
<1>3. /\ \A type : Plain(type, e, u) \subseteq Plain(type, f, v)
      /\ Entries(e, u) \subseteq Entries(f, v)
      /\ Snapshots(e, u) \subseteq Snapshots(f, v) /\ Answers(e) \subseteq Answers(f)
  BY <1>1 DEF Plain, Entries, Snapshots, Answers
<1>4. \A role : Mail(role, e, u) \subseteq Mail(role, f, v)
  BY <1>3 DEF Mail
<1> QED
  BY <1>2, <1>4 DEF AnyMail

LEMMA FormedGrows ==
  ASSUME NEW e \in Nat, NEW u \in Nat, NEW f \in Nat, NEW v \in Nat, e <= f, u <= v,
         NEW s, Formed(s, e, u)
  PROVE  Formed(s, f, v)
<1>1. /\ Processes(e, u) \subseteq Processes(f, v)
      /\ \A role : Mail(role, e, u) \subseteq Mail(role, f, v)
      /\ AnyMail(e, u) \subseteq AnyMail(f, v)
  BY Grows
<1>2. \A q \in Seq(AnyMail(e, u)) : q \in Seq(AnyMail(f, v))
  BY <1>1
<1> QED
  BY <1>1, <1>2 DEF Formed, States

-----------------------------------------------------------------------------
(* Topics and roles                                                         *)

LEMMA SendToDoes ==
  ASSUME NEW e, NEW u, NEW s, NEW x, NEW role, NEW m, NEW r,
         Formed(s, e, u), role \in Roles, m \in Mail(role, e, u), r = SendTo(s, role, x, m)
  PROVE  /\ Formed(r, e, u) /\ r.of = s.of
         /\ \A k \in Managers : \A y \in Of(r.inbox[k]) :
              y \in Of(s.inbox[k]) \/ (k = x /\ s.of[k].role = role /\ y = m)
<1>1. s \in States(e, u) /\ m \in AnyMail(e, u)
  BY MailIsAny DEF Formed
<1>2. CASE s.of[x].role = role /\ x \in Managers
  <2>1. s.inbox[x] \in Seq(AnyMail(e, u))
    BY <1>1, <1>2 DEF States
  <2>2. Append(s.inbox[x], m) \in Seq(AnyMail(e, u)) /\ Of(Append(s.inbox[x], m)) = Of(s.inbox[x]) \cup {m}
    BY <1>1, <2>1, OfAppend
  <2>3. r = [s EXCEPT !.inbox[x] = Append(s.inbox[x], m)]
    BY <1>2 DEF SendTo
  <2>4. r \in States(e, u) /\ r.of = s.of
        /\ \A k \in Managers : r.inbox[k] = IF k = x THEN Append(s.inbox[x], m) ELSE s.inbox[k]
    BY <1>1, <2>2, <2>3 DEF States
  <2> QED
    BY <1>2, <2>2, <2>4 DEF Formed
<1>3. CASE ~(s.of[x].role = role /\ x \in Managers)
  <2>1. r.of = s.of /\ r.inbox = s.inbox /\ r \in States(e, u)
    BY <1>1, <1>3 DEF SendTo, States
  <2> QED
    BY <2>1 DEF Formed
<1> QED
  BY <1>2, <1>3

LEMMA PublishOnDoes ==
  ASSUME NEW e, NEW u, NEW s, NEW role, NEW m, NEW r,
         Formed(s, e, u), role \in Roles, m \in Mail(role, e, u), r = PublishOn(s, role, m)
  PROVE  /\ Formed(r, e, u) /\ r.of = s.of
         /\ \A k \in Managers : \A y \in Of(r.inbox[k]) :
              y \in Of(s.inbox[k]) \/ (s.of[k].role = role /\ y = m)
<1>1. s \in States(e, u) /\ m \in AnyMail(e, u)
  BY MailIsAny DEF Formed
<1>2. \A k \in Managers : /\ Append(s.inbox[k], m) \in Seq(AnyMail(e, u))
                          /\ Of(Append(s.inbox[k], m)) = Of(s.inbox[k]) \cup {m}
  <2>1. \A k \in Managers : s.inbox[k] \in Seq(AnyMail(e, u))
    BY <1>1 DEF States
  <2> QED
    BY <1>1, <2>1, OfAppend
<1> DEFINE new == [k \in Managers |-> IF s.of[k].role = role THEN Append(s.inbox[k], m) ELSE s.inbox[k]]
<1>3. r = [s EXCEPT !.inbox = new]
  BY <1>1 DEF PublishOn, States
<1>4. r \in States(e, u) /\ r.of = s.of
      /\ \A k \in Managers : r.inbox[k] = IF s.of[k].role = role THEN Append(s.inbox[k], m) ELSE s.inbox[k]
  <2>1. new \in [Managers -> Seq(AnyMail(e, u))]
    BY <1>1, <1>2 DEF States
  <2>2. \A k \in Managers : new[k] = IF s.of[k].role = role THEN Append(s.inbox[k], m) ELSE s.inbox[k]
    OBVIOUS
  <2> HIDE DEF new
  <2>3. r \in States(e, u) /\ r.of = s.of /\ r.inbox = new
    BY <1>1, <1>3, <2>1 DEF States
  <2> QED
    BY <2>2, <2>3
<1>5. \A k \in Managers : Of(r.inbox[k]) \subseteq Mail(s.of[k].role, e, u)
  BY <1>2, <1>4 DEF Formed
<1>6. \A k \in Managers : \A y \in Of(r.inbox[k]) :
        y \in Of(s.inbox[k]) \/ (s.of[k].role = role /\ y = m)
  BY <1>2, <1>4
<1> QED
  BY <1>4, <1>5, <1>6 DEF Formed

\* Of a manager that changes its role the fields that stay.
Reborn(p, role, term) == [p EXCEPT !.role = role, !.term = term, !.leaderId = NoOne, !.asks = 0]

LEMMA ChangeRoleDoes ==
  ASSUME NEW e, NEW u, NEW s, NEW n, NEW role, NEW term, NEW r,
         Formed(s, e, u), n \in Managers, role \in Roles, term \in UpTo(e),
         r = ChangeRole(s, n, role, term)
  PROVE  /\ Formed(r, e, u) /\ r.of[n] = Reborn(s.of[n], role, term)
         /\ \A k \in Managers : k # n => r.of[k] = s.of[k]
         /\ Reborn(s.of[n], role, term) \in Processes(e, u)
         /\ r.inbox[n] = None /\ \A k \in Managers : k # n => r.inbox[k] = s.inbox[k]
<1> DEFINE p == Reborn(s.of[n], role, term)
<1>1. s \in States(e, u) /\ s.of[n] \in Processes(e, u)
  BY DEF Formed, States
<1>2. p \in Processes(e, u) /\ p.role = role
  BY <1>1 DEF Reborn, Processes
<1>3. r = [s EXCEPT !.of[n] = p, !.inbox[n] = None]
  BY <1>1 DEF ChangeRole, Reborn, States
<1> HIDE DEF p
<1>4. r \in States(e, u) /\ r.of = [s.of EXCEPT ![n] = p] /\ r.inbox = [s.inbox EXCEPT ![n] = None]
  <2>1. None \in Seq(AnyMail(e, u))
    BY DEF None
  <2>2. [s.of EXCEPT ![n] = p] \in [Managers -> Processes(e, u)]
    BY <1>1, <1>2 DEF States
  <2>3. [s.inbox EXCEPT ![n] = None] \in [Managers -> Seq(AnyMail(e, u))]
    BY <1>1, <2>1 DEF States
  <2>4. r.of = [s.of EXCEPT ![n] = p] /\ r.inbox = [s.inbox EXCEPT ![n] = None]
        /\ r = [of |-> r.of, inbox |-> r.inbox]
    BY <1>1, <1>3 DEF States
  <2> QED
    BY <2>2, <2>3, <2>4 DEF States
<1>5. /\ r.inbox[n] = None /\ r.of[n] = p
      /\ \A k \in Managers : k # n => r.inbox[k] = s.inbox[k] /\ r.of[k] = s.of[k]
  BY <1>1, <1>4 DEF States
<1>6. Formed(r, e, u)
  BY <1>4, <1>5, OfNone DEF Formed
<1> QED
  BY <1>2, <1>4, <1>5, <1>6 DEF p

\* The state in which manager n is p.
With(s, n, p) == [s EXCEPT !.of[n] = p]

LEMMA UpdateDoes ==
  ASSUME NEW e, NEW u, NEW s, NEW n, NEW p, NEW r,
         Formed(s, e, u), n \in Managers, p \in Processes(e, u), p.role = s.of[n].role,
         r = With(s, n, p)
  PROVE  /\ Formed(r, e, u) /\ r.inbox = s.inbox
         /\ r.of[n] = p /\ \A k \in Managers : k # n => r.of[k] = s.of[k]
<1>1. s \in States(e, u)
  BY DEF Formed
<1>2. r \in States(e, u) /\ r.of = [s.of EXCEPT ![n] = p] /\ r.inbox = s.inbox
  BY <1>1 DEF States, With
<1>3. r.of[n] = p /\ \A k \in Managers : k # n => r.of[k] = s.of[k]
  BY <1>1, <1>2 DEF States
<1> QED
  BY <1>2, <1>3 DEF Formed

-----------------------------------------------------------------------------
(* What the handlers do                                                     *)

\* A message that n has sent to k: a vote that it remembers, or its own data.
Sent(s, r, n, k, x) ==
  \/ x.type \in {"heartbeart", "requestVote"}
  \/ /\ x.type = "responseVote"
     /\ \/ x.voteGranted = FALSE
        \/ x.voter = n /\ k = r.of[n].lastVoteFor /\ x.voteForTerm = r.of[n].lastVoteTerm
  \/ x.type = "installSnapshot" /\ r.of[k].role = "leader"
  \/ /\ x.type = "installSnapshot" /\ s.of[n].role = "leader"
     /\ x.term = s.of[n].term /\ x.index = s.of[n].index /\ x.data = s.of[n].data

MailKept(s, n, r) ==
  \A k \in Managers : \A x \in Of(r.inbox[k]) :
    Sent(s, r, n, k, x) \/ (x \in Of(s.inbox[k]) /\ r.of[k].role = s.of[k].role)

\* The last vote is the one there was, or is given to m in a term that has not had one.
VotesKept(p, m, q) ==
  \/ q.lastVoteTerm = p.lastVoteTerm /\ q.lastVoteFor = p.lastVoteFor
  \/ /\ m.type = "requestVote" /\ q.lastVoteTerm = m.term /\ q.lastVoteFor = m.id
     /\ m.term >= p.term /\ q.term = m.term
     /\ p.lastVoteFor = NoOne \/ p.lastVoteTerm # m.term

\* A candidate counts votes for its term, and is leader with more than half of them.
Counts(p, m, q) ==
  /\ p.role = "candidate" /\ q.role \in {"candidate", "leader"} /\ q.term = p.term
  /\ \A v \in q.voters \ p.voters :
       m.type = "responseVote" /\ m.voteGranted = TRUE /\ m.voter = v /\ m.voteForTerm = p.term
  /\ q.role = "leader" => 2 * Cardinality(q.voters) > Cardinality(Managers)
RoleKept(p, m, q) ==
  \/ q.role \in {"follower", "absent"}
  \/ q.role = "leader" /\ p.role = "leader" /\ q.term = p.term /\ q.voters = p.voters
  \/ Counts(p, m, q)

\* A follower takes over an entry next to its last one, or all data.
SameLog(p, q) == q.index = p.index /\ q.logTerm = p.logTerm /\ q.data = p.data
LogKept(p, m, q) ==
  \/ SameLog(p, q)
  \/ /\ m.type = "appendEntry" /\ p.role = "follower" /\ q.role = "follower"
     /\ p.index = m.index /\ p.logTerm = m.logTerm
     /\ q.index = m.index + 1 /\ q.logTerm = m.term /\ q.data \in {p.data, p.data \o m.data}
  \/ /\ m.type = "installSnapshot" /\ p.role = "follower" /\ q.role = "follower"
     /\ q.index = m.index /\ q.logTerm = m.term /\ q.data = m.data

Handles(s, n, m, r, e, u) ==
  /\ Formed(r, e, u) /\ \A k \in Managers : k # n => r.of[k] = s.of[k]
  /\ MailKept(s, n, r)
  /\ VotesKept(s.of[n], m, r.of[n]) /\ RoleKept(s.of[n], m, r.of[n]) /\ LogKept(s.of[n], m, r.of[n])

\* A handler that sends nothing and leaves the role.
LEMMA NothingSent ==
  ASSUME NEW e, NEW u, NEW s, NEW n \in Managers, NEW m, NEW r,
         Formed(r, e, u), \A k \in Managers : k # n => r.of[k] = s.of[k],
         r.inbox = s.inbox, r.of[n].role = s.of[n].role,
         VotesKept(s.of[n], m, r.of[n]), RoleKept(s.of[n], m, r.of[n]), LogKept(s.of[n], m, r.of[n])
  PROVE  Handles(s, n, m, r, e, u)
BY DEF Handles, MailKept

\* A manager's own data in a message, of whatever type has the place for it.
LEMMA MessageFormed ==
  ASSUME NEW e, NEW u, NEW s, Formed(s, e, u), NEW n \in Managers
  PROVE  /\ Message(s, n, "heartbeart") \in Plain("heartbeart", e, u)
         /\ Message(s, n, "requestVote") \in Plain("requestVote", e, u)
         /\ Message(s, n, "installSnapshot") \in Snapshots(e, u)
         /\ s.of[n] \in Processes(e, u)
<1>1. s.of[n] \in Processes(e, u)
  BY DEF Formed, States
<1>2. None \in Seq(Nat)
  BY DEF None
<1> QED
  BY <1>1, <1>2 DEF Message, Plain, Snapshots, Processes

\* Mail of t was there in s, for the same role.
Carried(s, t) ==
  \A k \in Managers : \A x \in Of(t.inbox[k]) : x \in Of(s.inbox[k]) /\ t.of[k].role = s.of[k].role

\* An answer of n to id grants nothing but the last vote of n.
Honest(t, n, id, a) ==
  \/ a.voteGranted = FALSE
  \/ a.voter = n /\ id = t.of[n].lastVoteFor /\ a.voteForTerm = t.of[n].lastVoteTerm

LEMMA AnswerKept ==
  ASSUME NEW e, NEW u, NEW s, NEW t, NEW n, NEW id, NEW a, NEW r,
         Formed(t, e, u), Carried(s, t), n \in Managers, a \in Answers(e),
         Honest(t, n, id, a),
         r = SendTo(t, "candidate", id, a)
  PROVE  Formed(r, e, u) /\ r.of = t.of /\ MailKept(s, n, r)
<1>1. a \in Mail("candidate", e, u) /\ "candidate" \in Roles /\ a.type = "responseVote"
  BY DEF Mail, Roles, Answers
<1>2. /\ Formed(r, e, u) /\ r.of = t.of
      /\ \A k \in Managers : \A x \in Of(r.inbox[k]) :
           x \in Of(t.inbox[k]) \/ (k = id /\ t.of[k].role = "candidate" /\ x = a)
  BY <1>1, SendToDoes
<1>3. MailKept(s, n, r)
  <2> SUFFICES ASSUME NEW k \in Managers, NEW x \in Of(r.inbox[k])
               PROVE  Sent(s, r, n, k, x) \/ (x \in Of(s.inbox[k]) /\ r.of[k].role = s.of[k].role)
    BY DEF MailKept
  <2>1. CASE x \in Of(t.inbox[k])
    BY <1>2, <2>1 DEF Carried
  <2>2. CASE x \notin Of(t.inbox[k])
    BY <1>1, <1>2, <2>2 DEF Sent, Honest
  <2> QED
    BY <2>1, <2>2
<1> QED
  BY <1>2, <1>3

Grant(t, n, m) == ResponseVote(t, n, m, TRUE)
Refuse(t, n, m) == ResponseVote(t, n, m, FALSE)

LEMMA Granted ==
  ASSUME NEW e, NEW u, NEW s, NEW t, NEW n, NEW m, NEW r,
         Formed(t, e, u), Carried(s, t), n \in Managers, m \in Plain("requestVote", e, u),
         t.of[n].lastVoteFor = m.id, t.of[n].lastVoteTerm = m.term,
         r = Grant(t, n, m)
  PROVE  Formed(r, e, u) /\ r.of = t.of /\ MailKept(s, n, r)
<1> DEFINE a == [type |-> "responseVote", id |-> m.id, voteGranted |-> TRUE, term |-> t.of[n].term,
                 voteForTerm |-> m.term, voter |-> n]
<1>1. t.of[n].term \in UpTo(e) /\ m.term \in UpTo(e) /\ m.id \in Managers
  BY DEF Formed, States, Processes, Plain
<1>2. a \in Answers(e)
  BY <1>1 DEF Answers
<1>3. r = SendTo(t, "candidate", m.id, a)
  BY DEF Grant, ResponseVote
<1>4. Honest(t, n, m.id, a)
  BY DEF Honest
<1> HIDE DEF a
<1> QED
  BY <1>2, <1>3, <1>4, AnswerKept

LEMMA NotGranted ==
  ASSUME NEW e, NEW u, NEW s, NEW t, NEW n, NEW m, NEW r,
         Formed(t, e, u), Carried(s, t), n \in Managers, m \in Plain("requestVote", e, u),
         r = Refuse(t, n, m)
  PROVE  Formed(r, e, u) /\ r.of = t.of /\ MailKept(s, n, r)
<1> DEFINE a == [type |-> "responseVote", id |-> m.id, voteGranted |-> FALSE, term |-> t.of[n].term,
                 voteForTerm |-> m.term, voter |-> n]
<1>1. t.of[n].term \in UpTo(e) /\ m.term \in UpTo(e) /\ m.id \in Managers
  BY DEF Formed, States, Processes, Plain
<1>2. a \in Answers(e) /\ a.voteGranted = FALSE
  BY <1>1 DEF Answers
<1>3. r = SendTo(t, "candidate", m.id, a)
  BY DEF Refuse, ResponseVote
<1> HIDE DEF a
<1>4. Honest(t, n, m.id, a)
  BY <1>2 DEF Honest
<1> QED
  BY <1>2, <1>3, <1>4, AnswerKept

Voted(p, m) == [p EXCEPT !.lastVoteTerm = m.term, !.lastVoteFor = m.id, !.term = m.term]

Considered(p, m, q) ==
  q = p \/ (q = Voted(p, m) /\ (p.lastVoteFor = NoOne \/ p.lastVoteTerm # m.term))

LEMMA ConsiderVoteDoes ==
  ASSUME NEW e, NEW u, NEW s, NEW t, NEW n, NEW m, NEW role, NEW r,
         Formed(t, e, u), Carried(s, t), n \in Managers, m \in Plain("requestVote", e, u),
         r = ConsiderVote(t, n, m, role)
  PROVE  /\ Formed(r, e, u) /\ MailKept(s, n, r)
         /\ \A k \in Managers : k # n => r.of[k] = t.of[k]
         /\ Considered(t.of[n], m, r.of[n])
<1> DEFINE given == Voted(t.of[n], m)
           v == With(t, n, given)
<1>1. m.id \in Managers /\ m.term \in UpTo(e) /\ t.of[n] \in Processes(e, u) /\ NoOne \notin Managers
  BY ElectionAssumption DEF Plain, Formed, States
<1>2. given \in Processes(e, u) /\ given.role = t.of[n].role
      /\ given.lastVoteTerm = m.term /\ given.lastVoteFor = m.id
  BY <1>1 DEF Processes, Voted
<1>3. v = With(t, n, given)
  OBVIOUS
<1> HIDE DEF given, v
<1>4. /\ Formed(v, e, u) /\ v.inbox = t.inbox
      /\ v.of[n] = given /\ \A k \in Managers : k # n => v.of[k] = t.of[k]
  BY <1>2, <1>3, UpdateDoes
<1>5. Carried(s, v)
  BY <1>2, <1>4 DEF Carried
<1>6. CASE HasVoted(t.of[n], m)
  <2>1. CASE t.of[n].lastVoteFor = m.id
    <3>1. r = Grant(t, n, m)
      BY <1>6, <2>1 DEF ConsiderVote, VoteAgain, Grant
    <3>2. t.of[n].lastVoteTerm = m.term
      BY <1>6 DEF HasVoted
    <3>3. Formed(r, e, u) /\ r.of = t.of /\ MailKept(s, n, r)
      BY <2>1, <3>1, <3>2, Granted
    <3> QED
      BY <3>3 DEF Considered
  <2>2. CASE t.of[n].lastVoteFor # m.id /\ role = "candidate"
    <3>1. r = Refuse(t, n, m)
      BY <1>6, <2>2 DEF ConsiderVote, VoteAgain, Refuse
    <3>2. Formed(r, e, u) /\ r.of = t.of /\ MailKept(s, n, r)
      BY <3>1, NotGranted
    <3> QED
      BY <3>2 DEF Considered
  <2>3. CASE t.of[n].lastVoteFor # m.id /\ role # "candidate"
    <3>1. r = t
      BY <1>6, <2>3 DEF ConsiderVote, VoteAgain
    <3> QED
      BY <3>1 DEF MailKept, Carried, Considered
  <2> QED
    BY <2>1, <2>2, <2>3
<1>7. CASE ~HasVoted(t.of[n], m) /\ OlderNode(t.of[n], m)
  <2>1. r = Refuse(t, n, m)
    BY <1>7 DEF ConsiderVote, Refuse
  <2>2. Formed(r, e, u) /\ r.of = t.of /\ MailKept(s, n, r)
    BY <2>1, NotGranted
  <2> QED
    BY <2>2 DEF Considered
<1>8. CASE ~HasVoted(t.of[n], m) /\ ~OlderNode(t.of[n], m)
  <2>1. r = Grant(v, n, m)
    BY <1>8 DEF ConsiderVote, Vote, Voted, With, Grant, v, given
  <2>2. t.of[n].lastVoteFor = NoOne \/ t.of[n].lastVoteTerm # m.term
    BY <1>8 DEF HasVoted
  <2>3. Formed(r, e, u) /\ r.of = v.of /\ MailKept(s, n, r)
    BY <1>2, <1>4, <1>5, <2>1, Granted
  <2> QED
    BY <1>4, <2>2, <2>3 DEF given, Considered
<1> QED
  BY <1>6, <1>7, <1>8

LEMMA FollowerRequestVoteDoes ==
  ASSUME NEW e, NEW u, NEW s, NEW n, NEW m, NEW r,
         Formed(s, e, u), n \in Managers, s.of[n].role = "follower",
         m \in Plain("requestVote", e, u), r = FollowerRequestVote(s, n, m)
  PROVE  Handles(s, n, m, r, e, u)
<1> DEFINE p == [s.of[n] EXCEPT !.term = m.term]
           t == With(s, n, p)
<1>1. m.id \in Managers /\ m.term \in UpTo(e) /\ s.of[n] \in Processes(e, u) /\ m.type = "requestVote"
  BY DEF Plain, Formed, States
<1>2. CASE s.of[n].leaderId \notin {NoOne, m.id} \/ m.term < s.of[n].term
  <2>1. r = Refuse(s, n, m)
    BY <1>2 DEF FollowerRequestVote, Refuse
  <2>2. Carried(s, s)
    BY DEF Carried
  <2>3. Formed(r, e, u) /\ r.of = s.of /\ MailKept(s, n, r)
    BY <2>1, <2>2, NotGranted
  <2> QED
    BY <1>1, <2>3 DEF Handles, VotesKept, RoleKept, LogKept, SameLog
<1>3. CASE ~(s.of[n].leaderId \notin {NoOne, m.id} \/ m.term < s.of[n].term)
  <2>1. p \in Processes(e, u) /\ p.role = s.of[n].role /\ p.lastVoteTerm = s.of[n].lastVoteTerm
        /\ p.lastVoteFor = s.of[n].lastVoteFor /\ SameLog(s.of[n], p)
    BY <1>1 DEF Processes, SameLog
  <2>2. r = ConsiderVote(t, n, m, "follower") /\ t = With(s, n, p)
    BY <1>3 DEF FollowerRequestVote, With
  <2>3. m.term >= s.of[n].term
    BY <1>1, <1>3 DEF UpTo, DEFAULT_DATA, Processes
  <2>4. \A q : q = Voted(p, m) =>
           q.lastVoteTerm = m.term /\ q.lastVoteFor = m.id /\ q.term = m.term
           /\ q.role = p.role /\ SameLog(s.of[n], q)
    BY <1>1, <2>1 DEF Processes, SameLog, Voted
  <2> HIDE DEF p, t
  <2>5. /\ Formed(t, e, u) /\ t.inbox = s.inbox /\ t.of[n] = p
        /\ \A k \in Managers : k # n => t.of[k] = s.of[k]
    BY <2>1, <2>2, UpdateDoes
  <2>6. Carried(s, t)
    BY <2>1, <2>5 DEF Carried
  <2>7. /\ Formed(r, e, u) /\ MailKept(s, n, r) /\ \A k \in Managers : k # n => r.of[k] = t.of[k]
        /\ Considered(t.of[n], m, r.of[n])
    <3>1. MailKept(s, n, r)
      BY <2>2, <2>5, <2>6, ConsiderVoteDoes
    <3> QED
      BY <2>2, <2>5, <2>6, <3>1, ConsiderVoteDoes
  <2>8. VotesKept(s.of[n], m, r.of[n])
    BY <1>1, <2>1, <2>3, <2>4, <2>5, <2>7 DEF VotesKept, Considered
  <2>9. r.of[n].role = "follower" /\ SameLog(s.of[n], r.of[n])
    BY <2>1, <2>4, <2>5, <2>7 DEF Considered
  <2> QED
    BY <2>5, <2>7, <2>8, <2>9 DEF Handles, RoleKept, LogKept
<1> QED
  BY <1>2, <1>3

LEMMA FollowerHeartbeatDoes ==
  ASSUME NEW e, NEW u, NEW s, NEW n, NEW m, NEW r,
         Formed(s, e, u), n \in Managers, s.of[n].role = "follower",
         m \in Plain("heartbeart", e, u), r = FollowerHeartbeat(s, n, m)
  PROVE  Handles(s, n, m, r, e, u)
<1> DEFINE p == [s.of[n] EXCEPT !.leaderId = m.id, !.term = m.term]
<1>1. m.id \in Managers /\ m.term \in UpTo(e) /\ s.of[n] \in Processes(e, u)
  BY DEF Plain, Formed, States
<1>2. p \in Processes(e, u) /\ p.role = s.of[n].role /\ SameLog(s.of[n], p)
      /\ p.lastVoteTerm = s.of[n].lastVoteTerm /\ p.lastVoteFor = s.of[n].lastVoteFor
  BY <1>1 DEF Processes, SameLog
<1>3. r = s \/ r = With(s, n, p)
  BY DEF FollowerHeartbeat, With
<1> HIDE DEF p
<1>4. CASE r = s
  BY <1>4, NothingSent DEF VotesKept, RoleKept, LogKept, SameLog
<1>5. CASE r = With(s, n, p)
  <2>1. /\ Formed(r, e, u) /\ r.inbox = s.inbox /\ r.of[n] = p
        /\ \A k \in Managers : k # n => r.of[k] = s.of[k]
    BY <1>2, <1>5, UpdateDoes
  <2>2. VotesKept(s.of[n], m, r.of[n]) /\ RoleKept(s.of[n], m, r.of[n]) /\ LogKept(s.of[n], m, r.of[n])
    BY <1>2, <2>1 DEF VotesKept, RoleKept, LogKept
  <2> QED
    BY <1>2, <2>1, <2>2, NothingSent
<1> QED
  BY <1>3, <1>4, <1>5

\* Of a manager that asks for a snapshot everything but the count of those who wait stays.
Stays(p, q) ==
  /\ q.role = p.role /\ q.term = p.term /\ q.voters = p.voters /\ SameLog(p, q)
  /\ q.lastVoteTerm = p.lastVoteTerm /\ q.lastVoteFor = p.lastVoteFor

LEMMA AskDoes ==
  ASSUME NEW e, NEW u, NEW s, NEW t, NEW n, NEW r,
         Formed(t, e, u), Carried(s, t), n \in Managers, r = Ask(t, n)
  PROVE  Formed(r, e, u) /\ r.of = t.of /\ MailKept(s, n, r)
<1> DEFINE m == Message(t, n, "installSnapshot")
           to == t.of[n].leaderId
<1>1. m \in Snapshots(e, u) /\ m.type = "installSnapshot"
  BY MessageFormed DEF Message
<1>2. m \in Mail("leader", e, u) /\ "leader" \in Roles
  BY <1>1 DEF Mail, Roles
<1>3. r = SendTo(t, "leader", to, m)
  BY DEF Ask
<1> HIDE DEF m, to
<1>4. Formed(r, e, u) /\ r.of = t.of
  BY <1>2, <1>3, SendToDoes
<1>5. \A k \in Managers : \A x \in Of(r.inbox[k]) :
        x \in Of(t.inbox[k]) \/ (k = to /\ t.of[k].role = "leader" /\ x = m)
  BY <1>2, <1>3, <1>4, SendToDoes
<1>6. MailKept(s, n, r)
  <2> SUFFICES ASSUME NEW k \in Managers, NEW x \in Of(r.inbox[k])
               PROVE  Sent(s, r, n, k, x) \/ (x \in Of(s.inbox[k]) /\ r.of[k].role = s.of[k].role)
    BY DEF MailKept
  <2>1. CASE x \in Of(t.inbox[k])
    BY <1>4, <2>1 DEF Carried
  <2>2. CASE x \notin Of(t.inbox[k])
    BY <1>1, <1>4, <1>5, <2>2 DEF Sent
  <2> QED
    BY <2>1, <2>2
<1> QED
  BY <1>4, <1>6

MayAsk(s, n, r) == r = s \/ r = Ask(s, n)

LEMMA AsksDoes ==
  ASSUME NEW e, NEW u, NEW s, NEW t, NEW n, NEW p, NEW on, NEW r,
         Formed(t, e, u), Carried(s, t), n \in Managers, p \in Processes(e, u), Stays(t.of[n], p),
         on = With(t, n, p), MayAsk(on, n, r)
  PROVE  /\ Formed(r, e, u) /\ MailKept(s, n, r) /\ Stays(t.of[n], r.of[n])
         /\ \A k \in Managers : k # n => r.of[k] = t.of[k]
<1>1. p.role = t.of[n].role
  BY DEF Stays
<1>2. /\ Formed(on, e, u) /\ on.inbox = t.inbox /\ on.of[n] = p
      /\ \A k \in Managers : k # n => on.of[k] = t.of[k]
  BY <1>1, UpdateDoes
<1>3. Carried(s, on)
  BY <1>1, <1>2 DEF Carried
<1>4. CASE r = on
  <2>1. MailKept(s, n, on)
    BY <1>3 DEF MailKept, Carried
  <2> QED
    BY <1>2, <1>4, <2>1
<1>5. CASE r = Ask(on, n)
  <2>1. Formed(r, e, u) /\ r.of = on.of /\ MailKept(s, n, r)
    BY <1>2, <1>3, <1>5, AskDoes
  <2> QED
    BY <1>2, <2>1
<1> QED
  BY <1>4, <1>5 DEF MayAsk

LEMMA InstallSnapshotDoes ==
  ASSUME NEW e, NEW u, NEW s, NEW t, NEW n, NEW r,
         Formed(t, e, u), Carried(s, t), n \in Managers,
         r = InstallSnapshot(t, n) \/ r = InstallSnapshotOver(t, n)
  PROVE  /\ Formed(r, e, u) /\ MailKept(s, n, r) /\ Stays(t.of[n], r.of[n])
         /\ \A k \in Managers : k # n => r.of[k] = t.of[k]
<1>1. t.of[n] \in Processes(e, u)
  BY DEF Formed, States
<1>2. t.of[n].asks \in Nat
  BY <1>1 DEF Processes
<1> DEFINE a == t.of[n].asks
           Asking(c) == [t.of[n] EXCEPT !.asks = c]
<1>3. PICK c \in Nat : MayAsk(With(t, n, Asking(c)), n, r)
  <2>1. CASE r = InstallSnapshot(t, n)
    <3>1. a + 1 \in Nat
      BY <1>2
    <3>2. [t EXCEPT !.of[n].asks = @ + 1] = With(t, n, Asking(a + 1))
      BY DEF With
    <3> QED
      BY <2>1, <3>1, <3>2 DEF InstallSnapshot, MayAsk
  <2>2. CASE r = InstallSnapshotOver(t, n)
    <3> DEFINE b == IF a = 0 THEN 0 ELSE a - 1
    <3>1. b \in Nat
      BY <1>2
    <3>2. [t EXCEPT !.of[n].asks = IF @ = 0 THEN 0 ELSE @ - 1] = With(t, n, Asking(b))
      BY DEF With
    <3> QED
      BY <2>2, <3>1, <3>2 DEF InstallSnapshotOver, MayAsk
  <2> QED
    BY <2>1, <2>2
<1> DEFINE p == Asking(c)
           on == With(t, n, p)
<1>4. p \in Processes(e, u) /\ Stays(t.of[n], p)
  BY <1>1 DEF Processes, Stays, SameLog
<1>5. on = With(t, n, p) /\ MayAsk(on, n, r)
  BY <1>3
<1> HIDE DEF p, on
<1>6. MailKept(s, n, r)
  BY <1>4, <1>5, AsksDoes
<1> QED
  BY <1>4, <1>5, <1>6, AsksDoes

LEMMA FollowerAppendEntryDoes ==
  ASSUME NEW e, NEW u, NEW s, NEW n, NEW m, NEW r, u \in Nat,
         Formed(s, e, u), n \in Managers, s.of[n].role = "follower",
         m \in Entries(e, u), r = FollowerAppendEntry(s, n, m)
  PROVE  Handles(s, n, m, r, e, u)
<1> DEFINE a == [s.of[n] EXCEPT !.leaderId = m.id, !.term = m.term]
           on == With(s, n, a)
           d == SetUpdatedData(s.of[n], m.data)
           p == [a EXCEPT !.index = s.of[n].index + 1, !.logTerm = m.term, !.data = d]
<1>1. /\ m.id \in Managers /\ m.term \in UpTo(e) /\ m.type = "appendEntry" /\ m.index \in UpTo(u - 1)
      /\ m.data \in Seq(Nat) /\ s.of[n] \in Processes(e, u) /\ s \in States(e, u)
  BY DEF Entries, Formed, States
<1>2. a \in Processes(e, u) /\ a.role = "follower" /\ Stays([s.of[n] EXCEPT !.term = m.term], a)
      /\ SameLog(s.of[n], a)
      /\ a.lastVoteTerm = s.of[n].lastVoteTerm /\ a.lastVoteFor = s.of[n].lastVoteFor
  BY <1>1 DEF Processes, Stays, SameLog
<1>3. CASE OfAnother(s.of[n], m)
  <2>1. r = s
    BY <1>3 DEF FollowerAppendEntry
  <2> QED
    BY <2>1, NothingSent DEF VotesKept, RoleKept, LogKept, SameLog
<1>4. CASE ~OfAnother(s.of[n], m) /\ ~EntryMatches(s.of[n], m)
  <2>1. r = InstallSnapshot(on, n)
    BY <1>4 DEF FollowerAppendEntry, With
  <2>2. on = With(s, n, a) /\ a \in Processes(e, u) /\ a.role = s.of[n].role
    BY <1>2
  <2> HIDE DEF on, a
  <2>3. /\ Formed(on, e, u) /\ on.inbox = s.inbox /\ on.of[n] = a
        /\ \A k \in Managers : k # n => on.of[k] = s.of[k]
    BY <2>2, UpdateDoes
  <2>4. Carried(s, on)
    BY <1>2, <2>3 DEF Carried
  <2>5. MailKept(s, n, r)
    BY <2>1, <2>3, <2>4, InstallSnapshotDoes
  <2>6. /\ Formed(r, e, u) /\ Stays(a, r.of[n])
        /\ \A k \in Managers : k # n => r.of[k] = s.of[k]
    BY <2>1, <2>3, <2>4, <2>5, InstallSnapshotDoes
  <2> QED
    BY <1>2, <2>5, <2>6 DEF Handles, VotesKept, RoleKept, LogKept, SameLog, Stays
<1>5. CASE ~OfAnother(s.of[n], m) /\ EntryMatches(s.of[n], m)
  <2>1. s.of[n].index = m.index /\ s.of[n].logTerm = m.logTerm
    BY <1>5 DEF EntryMatches
  <2>2. m.index + 1 \in UpTo(u)
    BY <1>1 DEF UpTo, DEFAULT_DATA
  <2>3. d \in Seq(Nat) /\ d \in {s.of[n].data, s.of[n].data \o m.data}
    BY <1>1 DEF SetUpdatedData, Processes
  <2>4. r = With(s, n, p)
    <3>1. r = [s EXCEPT !.of[n] = [With(s, n, a).of[n] EXCEPT
                                     !.index = s.of[n].index + 1, !.logTerm = m.term, !.data = d]]
      BY <1>5 DEF FollowerAppendEntry, With
    <3>2. With(s, n, a).of[n] = a
      BY <1>1 DEF With, States
    <3> HIDE DEF a, d
    <3> QED
      BY <3>1, <3>2 DEF With
  <2>5. /\ p \in Processes(e, u) /\ p.role = "follower"
        /\ p.index = m.index + 1 /\ p.logTerm = m.term /\ p.data = d
        /\ p.lastVoteTerm = s.of[n].lastVoteTerm /\ p.lastVoteFor = s.of[n].lastVoteFor
    <3> HIDE DEF d, a
    <3> QED
      BY <1>1, <1>2, <2>1, <2>2, <2>3 DEF Processes
  <2>9. p.role = s.of[n].role
    BY <2>5
  <2> HIDE DEF p, d, a, on
  <2>6. /\ Formed(r, e, u) /\ r.inbox = s.inbox /\ r.of[n] = p
        /\ \A k \in Managers : k # n => r.of[k] = s.of[k]
    BY <2>4, <2>5, <2>9, UpdateDoes
  <2>7. VotesKept(s.of[n], m, p) /\ RoleKept(s.of[n], m, p)
    BY <2>5 DEF VotesKept, RoleKept
  <2>8. LogKept(s.of[n], m, p)
    BY <1>1, <2>1, <2>3, <2>5 DEF LogKept
  <2> QED
    BY <2>5, <2>6, <2>7, <2>8, NothingSent
<1> QED
  BY <1>3, <1>4, <1>5

LEMMA FollowerInstallSnapshotDoes ==
  ASSUME NEW e, NEW u, NEW s, NEW n, NEW m, NEW r,
         Formed(s, e, u), n \in Managers, s.of[n].role = "follower",
         m \in Snapshots(e, u), r = FollowerInstallSnapshot(s, n, m)
  PROVE  Handles(s, n, m, r, e, u)
<1> DEFINE a == [SetRuntimeData(s.of[n], m) EXCEPT !.index = m.index, !.term = m.term, !.logTerm = m.term]
           on == With(s, n, a)
<1>1. /\ m.id \in Managers /\ m.term \in UpTo(e) /\ m.type = "installSnapshot" /\ m.index \in UpTo(u)
      /\ m.data \in Seq(Nat) /\ s.of[n] \in Processes(e, u)
  BY DEF Snapshots, Formed, States
<1>2. /\ a \in Processes(e, u) /\ a.role = "follower"
      /\ a.index = m.index /\ a.logTerm = m.term /\ a.data = m.data
      /\ a.lastVoteTerm = s.of[n].lastVoteTerm /\ a.lastVoteFor = s.of[n].lastVoteFor
  BY <1>1 DEF Processes, SetRuntimeData
<1>3. CASE OfAnother(s.of[n], m) \/ m.index < s.of[n].index
  <2>1. r = s
    BY <1>3 DEF FollowerInstallSnapshot
  <2> QED
    BY <2>1, NothingSent DEF VotesKept, RoleKept, LogKept, SameLog
<1>4. CASE ~(OfAnother(s.of[n], m) \/ m.index < s.of[n].index)
  <2>1. r = InstallSnapshotOver(on, n)
    BY <1>4 DEF FollowerInstallSnapshot, With
  <2>2. on = With(s, n, a) /\ a \in Processes(e, u) /\ a.role = s.of[n].role
    BY <1>2
  <2> HIDE DEF on, a
  <2>3. /\ Formed(on, e, u) /\ on.inbox = s.inbox /\ on.of[n] = a
        /\ \A k \in Managers : k # n => on.of[k] = s.of[k]
    BY <2>2, UpdateDoes
  <2>4. Carried(s, on)
    BY <1>2, <2>3 DEF Carried
  <2>5. MailKept(s, n, r)
    BY <2>1, <2>3, <2>4, InstallSnapshotDoes
  <2>6. /\ Formed(r, e, u) /\ Stays(a, r.of[n])
        /\ \A k \in Managers : k # n => r.of[k] = s.of[k]
    BY <2>1, <2>3, <2>4, <2>5, InstallSnapshotDoes
  <2>7. VotesKept(s.of[n], m, r.of[n]) /\ RoleKept(s.of[n], m, r.of[n])
    BY <1>2, <2>6 DEF VotesKept, RoleKept, Stays
  <2>8. LogKept(s.of[n], m, r.of[n])
    BY <1>1, <1>2, <2>6 DEF LogKept, Stays, SameLog
  <2> QED
    BY <2>5, <2>6, <2>7, <2>8 DEF Handles
<1> QED
  BY <1>3, <1>4

\* Of a manager that changes its role its votes and its data stay.
Keeps(p, q) ==
  /\ q.voters = p.voters /\ SameLog(p, q)
  /\ q.lastVoteTerm = p.lastVoteTerm /\ q.lastVoteFor = p.lastVoteFor

LEMMA ChangeRoleKeeps ==
  ASSUME NEW e, NEW u, NEW s, NEW n, NEW role, NEW term, NEW r,
         Formed(s, e, u), n \in Managers, role \in Roles, term \in UpTo(e),
         r = ChangeRole(s, n, role, term)
  PROVE  /\ Formed(r, e, u) /\ Carried(s, r)
         /\ \A k \in Managers : k # n => r.of[k] = s.of[k] /\ r.inbox[k] = s.inbox[k]
         /\ r.of[n].role = role /\ r.of[n].term = term /\ Keeps(s.of[n], r.of[n])
<1>1. Formed(r, e, u)
  BY ChangeRoleDoes
<1>2. /\ r.of[n] = Reborn(s.of[n], role, term) /\ r.inbox[n] = None
      /\ \A k \in Managers : k # n => r.of[k] = s.of[k] /\ r.inbox[k] = s.inbox[k]
  BY <1>1, ChangeRoleDoes
<1>3. s.of[n] \in Processes(e, u)
  BY DEF Formed, States
<1>4. \A q : q = Reborn(s.of[n], role, term) => q.role = role /\ q.term = term /\ Keeps(s.of[n], q)
  BY <1>3 DEF Reborn, Processes, Keeps, SameLog
<1>5. Carried(s, r)
  BY <1>2, OfNone DEF Carried
<1> QED
  BY <1>1, <1>2, <1>4, <1>5

LEMMA StaysDoes ==
  ASSUME NEW e, NEW u, NEW s, NEW n, NEW p, NEW r,
         Formed(s, e, u), n \in Managers, p \in Processes(e, u), Stays(s.of[n], p), r = With(s, n, p)
  PROVE  /\ Formed(r, e, u) /\ r.inbox = s.inbox /\ r.of[n] = p /\ Carried(s, r)
         /\ \A k \in Managers : k # n => r.of[k] = s.of[k]
<1>1. p.role = s.of[n].role
  BY DEF Stays
<1>2. /\ Formed(r, e, u) /\ r.inbox = s.inbox /\ r.of[n] = p
      /\ \A k \in Managers : k # n => r.of[k] = s.of[k]
  BY <1>1, UpdateDoes
<1> QED
  BY <1>1, <1>2 DEF Carried

\* A manager that takes over, or gives up, is a freshman no longer, or again.
Freshman(p) == [p EXCEPT !.isFreshman = TRUE]
Serving(p)  == [p EXCEPT !.isFreshman = FALSE]

LEMMA FreshmanStays ==
  ASSUME NEW e, NEW u, NEW p \in Processes(e, u)
  PROVE  /\ Freshman(p) \in Processes(e, u) /\ Stays(p, Freshman(p))
         /\ Serving(p) \in Processes(e, u) /\ Stays(p, Serving(p))
BY DEF Freshman, Serving, Processes, Stays, SameLog

LEMMA LeaveOfficeDoes ==
  ASSUME NEW e, NEW u, NEW s, NEW n, NEW term, NEW r, NEW m,
         Formed(s, e, u), n \in Managers, term \in UpTo(e), r = LeaveOffice(s, n, term)
  PROVE  Handles(s, n, m, r, e, u)
<1> DEFINE c == ChangeRole(s, n, "follower", term)
           p == Freshman(c.of[n])
<1>1. c = ChangeRole(s, n, "follower", term) /\ "follower" \in Roles
  BY DEF Roles
<1>2. r = With(c, n, p)
  BY DEF LeaveOffice, With, Freshman
<1> HIDE DEF c
<1>3. Formed(c, e, u)
  BY <1>1, ChangeRoleKeeps
<1>4. /\ Carried(s, c)
      /\ \A k \in Managers : k # n => c.of[k] = s.of[k] /\ c.inbox[k] = s.inbox[k]
      /\ c.of[n].role = "follower" /\ c.of[n].term = term /\ Keeps(s.of[n], c.of[n])
  BY <1>1, <1>3, ChangeRoleKeeps
<1>5. p \in Processes(e, u) /\ Stays(c.of[n], p)
  BY <1>3, FreshmanStays DEF Formed, States
<1> HIDE DEF p
<1>6. Formed(r, e, u)
  BY <1>2, <1>3, <1>5, StaysDoes
<1>7. /\ r.inbox = c.inbox /\ r.of[n] = p
      /\ \A k \in Managers : k # n => r.of[k] = c.of[k]
  BY <1>2, <1>3, <1>5, <1>6, StaysDoes
<1>8. MailKept(s, n, r)
  BY <1>4, <1>5, <1>7 DEF MailKept, Carried, Stays
<1> QED
  BY <1>4, <1>5, <1>6, <1>7, <1>8 DEF Handles, VotesKept, RoleKept, LogKept, Keeps, SameLog, Stays

-----------------------------------------------------------------------------
(* Heartbeats                                                               *)

\* As SendHeartbeat has it, the sender is of no role.
OpenProcesses(e, u) == Processes(e, u) \cup {[p EXCEPT !.role = "none"] : p \in Processes(e, u)}
OpenStates(e, u) ==
  [of : [Managers -> OpenProcesses(e, u)], inbox : [Managers -> Seq(AnyMail(e, u))]]

LEMMA PublishOnAdds ==
  ASSUME NEW e, NEW u, NEW s, NEW role, NEW m, NEW r,
         s \in OpenStates(e, u), m \in AnyMail(e, u), r = PublishOn(s, role, m)
  PROVE  /\ r \in OpenStates(e, u) /\ r.of = s.of
         /\ \A k \in Managers :
              r.inbox[k] = IF s.of[k].role = role THEN Append(s.inbox[k], m) ELSE s.inbox[k]
<1> DEFINE P == OpenProcesses(e, u)
           B == Seq(AnyMail(e, u))
           new == [k \in Managers |-> IF s.of[k].role = role THEN Append(s.inbox[k], m) ELSE s.inbox[k]]
<1>1. s \in [of : [Managers -> P], inbox : [Managers -> B]]
  BY DEF OpenStates
<1>2. \A q \in B : Append(q, m) \in B
  OBVIOUS
<1> HIDE DEF P, B
<1>3. new \in [Managers -> B]
  BY <1>1, <1>2
<1>4. r = [s EXCEPT !.inbox = new]
  BY <1>1 DEF PublishOn
<1>5. \A k \in Managers : new[k] = IF s.of[k].role = role THEN Append(s.inbox[k], m) ELSE s.inbox[k]
  OBVIOUS
<1> HIDE DEF new
<1>6. r \in [of : [Managers -> P], inbox : [Managers -> B]] /\ r.of = s.of /\ r.inbox = new
  BY <1>1, <1>3, <1>4
<1> QED
  BY <1>5, <1>6 DEF OpenStates, P, B

LEMMA SendHeartbeatDoes ==
  ASSUME NEW e, NEW u, NEW s, NEW n, NEW r,
         Formed(s, e, u), n \in Managers, r = SendHeartbeat(s, n)
  PROVE  /\ Formed(r, e, u) /\ r.of = s.of
         /\ \A k \in Managers : \A x \in Of(r.inbox[k]) : x \in Of(s.inbox[k]) \/ x.type = "heartbeart"
<1> DEFINE m  == Message(s, n, "heartbeart")
           s0 == [s EXCEPT !.of[n].role = "none"]
           s1 == PublishOn(s0, "leader", m)
           s2 == PublishOn(s1, "follower", m)
           s3 == PublishOn(s2, "candidate", m)
<1>1. s \in States(e, u) /\ m \in Plain("heartbeart", e, u) /\ m.type = "heartbeart"
  BY MessageFormed DEF Formed, Message
<1>2. \A role \in Roles : role # "absent" => m \in Mail(role, e, u)
  BY <1>1 DEF Mail
<1>3. m \in AnyMail(e, u)
  BY <1>2, MailIsAny DEF Roles
<1>4. s0 \in OpenStates(e, u) /\ s0.inbox = s.inbox /\ s0.of[n].role = "none"
      /\ \A k \in Managers : k # n => s0.of[k] = s.of[k]
  <2> DEFINE P == OpenProcesses(e, u)
             p0 == [s.of[n] EXCEPT !.role = "none"]
  <2>1. p0 \in P /\ p0.role = "none"
    <3>1. s.of[n] \in Processes(e, u)
      BY <1>1 DEF States
    <3>2. p0 \in P
      BY <3>1 DEF OpenProcesses
    <3> QED
      BY <3>1, <3>2 DEF Processes
  <2>2. Processes(e, u) \subseteq P
    BY DEF OpenProcesses
  <2>3. s0 = [s EXCEPT !.of[n] = p0]
    OBVIOUS
  <2>4. s \in [of : [Managers -> P], inbox : [Managers -> Seq(AnyMail(e, u))]]
    <3> HIDE DEF P
    <3> QED
      BY <1>1, <2>2 DEF States
  <2> HIDE DEF P, p0, s0
  <2> QED
    BY <2>1, <2>3, <2>4 DEF OpenStates, P
<1>5. r = [s EXCEPT !.inbox = s3.inbox]
  BY DEF SendHeartbeat
<1> HIDE DEF m, s0
<1>6. /\ s1 \in OpenStates(e, u) /\ s1.of = s0.of
      /\ \A k \in Managers :
           s1.inbox[k] = IF s0.of[k].role = "leader" THEN Append(s0.inbox[k], m) ELSE s0.inbox[k]
  BY <1>3, <1>4, PublishOnAdds
<1> HIDE DEF s1
<1>7. /\ s2 \in OpenStates(e, u) /\ s2.of = s1.of
      /\ \A k \in Managers :
           s2.inbox[k] = IF s1.of[k].role = "follower" THEN Append(s1.inbox[k], m) ELSE s1.inbox[k]
  BY <1>3, <1>6, PublishOnAdds
<1> HIDE DEF s2
<1>8. /\ s3 \in OpenStates(e, u) /\ s3.of = s2.of
      /\ \A k \in Managers :
           s3.inbox[k] = IF s2.of[k].role = "candidate" THEN Append(s2.inbox[k], m) ELSE s2.inbox[k]
  BY <1>3, <1>7, PublishOnAdds
<1> HIDE DEF s3
<1>9. \A k \in Managers :
        \/ s3.inbox[k] = s.inbox[k]
        \/ s3.inbox[k] = Append(s.inbox[k], m) /\ s.of[k].role \in Roles /\ s.of[k].role # "absent"
  <2> TAKE k \in Managers
  <2>1. CASE k = n
    BY <1>4, <1>6, <1>7, <1>8, <2>1
  <2>2. CASE k # n
    <3>1. s0.of[k] = s.of[k] /\ s1.of[k] = s.of[k] /\ s2.of[k] = s.of[k] /\ s0.inbox[k] = s.inbox[k]
      BY <1>4, <1>6, <1>7, <2>2
    <3>2. "leader" \in Roles /\ "follower" \in Roles /\ "candidate" \in Roles
      BY DEF Roles
    <3> QED
      BY <1>6, <1>7, <1>8, <3>1, <3>2
  <2> QED
    BY <2>1, <2>2
<1>10. s3.inbox \in [Managers -> Seq(AnyMail(e, u))]
  BY <1>8 DEF OpenStates
<1>11. r \in States(e, u) /\ r.of = s.of /\ r.inbox = s3.inbox
  BY <1>1, <1>5, <1>10 DEF States
<1>12. \A k \in Managers : s.inbox[k] \in Seq(AnyMail(e, u))
  BY <1>1 DEF States
<1>13. \A k \in Managers : \/ Of(r.inbox[k]) = Of(s.inbox[k])
                           \/ Of(r.inbox[k]) = Of(s.inbox[k]) \cup {m} /\ m \in Mail(s.of[k].role, e, u)
  <2>1. \A k \in Managers : Of(Append(s.inbox[k], m)) = Of(s.inbox[k]) \cup {m}
    BY <1>3, <1>12, OfAppend
  <2>2. \A k \in Managers : s.of[k].role \in Roles /\ s.of[k].role # "absent" => m \in Mail(s.of[k].role, e, u)
    BY <1>2
  <2> QED
    BY <1>9, <1>11, <2>1, <2>2
<1>14. Formed(r, e, u)
  BY <1>11, <1>13 DEF Formed
<1> QED
  BY <1>1, <1>11, <1>13, <1>14

LEMMA RunAsLeaderDoes ==
  ASSUME NEW e, NEW u, NEW s, NEW t, NEW n, NEW r,
         Formed(t, e, u), Carried(s, t), n \in Managers, r = RunAsLeader(t, n)
  PROVE  /\ Formed(r, e, u) /\ MailKept(s, n, r)
         /\ \A k \in Managers : k # n => r.of[k] = t.of[k]
         /\ r.of[n].role = "leader" /\ r.of[n].term = t.of[n].term /\ Keeps(t.of[n], r.of[n])
<1> DEFINE term == t.of[n].term
           c == ChangeRole(t, n, "leader", term)
           p == Serving(c.of[n])
           on == With(c, n, p)
<1>1. c = ChangeRole(t, n, "leader", term) /\ "leader" \in Roles /\ term \in UpTo(e)
  BY DEF Roles, Formed, States, Processes
<1>2. r = SendHeartbeat(on, n)
  BY DEF RunAsLeader, With, Serving
<1> HIDE DEF c, term
<1>3. Formed(c, e, u)
  BY <1>1, ChangeRoleKeeps
<1>4. /\ Carried(t, c)
      /\ \A k \in Managers : k # n => c.of[k] = t.of[k] /\ c.inbox[k] = t.inbox[k]
      /\ c.of[n].role = "leader" /\ c.of[n].term = term /\ Keeps(t.of[n], c.of[n])
  BY <1>1, <1>3, ChangeRoleKeeps
<1>5. on = With(c, n, p) /\ p \in Processes(e, u) /\ Stays(c.of[n], p)
  BY <1>3, FreshmanStays DEF Formed, States
<1> HIDE DEF p, on
<1>6. Formed(on, e, u)
  BY <1>3, <1>5, StaysDoes
<1>7. /\ on.inbox = c.inbox /\ on.of[n] = p
      /\ \A k \in Managers : k # n => on.of[k] = c.of[k]
  BY <1>3, <1>5, <1>6, StaysDoes
<1>8. Formed(r, e, u) /\ r.of = on.of
  BY <1>2, <1>6, SendHeartbeatDoes
<1>9. \A k \in Managers : \A x \in Of(r.inbox[k]) : x \in Of(on.inbox[k]) \/ x.type = "heartbeart"
  BY <1>2, <1>6, <1>8, SendHeartbeatDoes
<1>10. MailKept(s, n, r)
  <2> SUFFICES ASSUME NEW k \in Managers, NEW x \in Of(r.inbox[k]), x.type # "heartbeart"
               PROVE  x \in Of(s.inbox[k]) /\ r.of[k].role = s.of[k].role
    BY DEF MailKept, Sent
  <2>1. x \in Of(c.inbox[k])
    BY <1>7, <1>9
  <2>2. x \in Of(t.inbox[k]) /\ c.of[k].role = t.of[k].role
    BY <1>4, <2>1 DEF Carried
  <2>3. x \in Of(s.inbox[k]) /\ t.of[k].role = s.of[k].role
    BY <2>2 DEF Carried
  <2>4. r.of[k].role = c.of[k].role
    BY <1>5, <1>7, <1>8 DEF Stays
  <2> QED
    BY <2>2, <2>3, <2>4
<1>11. Keeps(t.of[n], p) /\ p.role = "leader" /\ p.term = term
  BY <1>4, <1>5 DEF Keeps, Stays, SameLog
<1> QED
  BY <1>4, <1>7, <1>8, <1>10, <1>11 DEF term

-----------------------------------------------------------------------------
(* The handlers of a candidate and of a leader                              *)

LEMMA CandidateRequestVoteDoes ==
  ASSUME NEW e, NEW u, NEW s, NEW n, NEW m, NEW r,
         Formed(s, e, u), n \in Managers, s.of[n].role = "candidate",
         m \in Plain("requestVote", e, u), r = CandidateRequestVote(s, n, m)
  PROVE  Handles(s, n, m, r, e, u)
<1> DEFINE c == ChangeRole(s, n, "follower", m.term)
<1>1. m.id \in Managers /\ m.term \in UpTo(e) /\ s.of[n] \in Processes(e, u) /\ m.type = "requestVote"
  BY DEF Plain, Formed, States
<1>2. s.of[n].term \in Int /\ m.term \in Int
  BY <1>1 DEF Processes, UpTo, DEFAULT_DATA
<1>3. Carried(s, s)
  BY DEF Carried
<1>4. CASE m.term < s.of[n].term
  <2>1. r = Refuse(s, n, m)
    BY <1>4 DEF CandidateRequestVote, Refuse
  <2>2. Formed(r, e, u) /\ r.of = s.of /\ MailKept(s, n, r)
    BY <1>3, <2>1, NotGranted
  <2>3. RoleKept(s.of[n], m, s.of[n])
    BY DEF RoleKept, Counts
  <2> QED
    BY <2>2, <2>3 DEF Handles, VotesKept, LogKept, SameLog
<1>5. ASSUME NEW t, Formed(t, e, u), Carried(s, t), r = ConsiderVote(t, n, m, "candidate"),
             \A k \in Managers : k # n => t.of[k] = s.of[k],
             Keeps(s.of[n], t.of[n]), m.term >= s.of[n].term, t.of[n].term = m.term,
             t.of[n].role = "follower" \/ (t.of[n].role = "candidate" /\ m.term = s.of[n].term)
      PROVE  Handles(s, n, m, r, e, u)
  <2>1. MailKept(s, n, r)
    BY <1>5, ConsiderVoteDoes
  <2>2. /\ Formed(r, e, u) /\ \A k \in Managers : k # n => r.of[k] = t.of[k]
        /\ Considered(t.of[n], m, r.of[n])
    BY <1>5, <2>1, ConsiderVoteDoes
  <2>3. t.of[n] \in Processes(e, u)
    BY <1>5 DEF Formed, States
  <2>4. \A q : q = Voted(t.of[n], m) =>
           /\ q.lastVoteTerm = m.term /\ q.lastVoteFor = m.id /\ q.term = m.term
           /\ q.role = t.of[n].role /\ q.voters = t.of[n].voters /\ SameLog(t.of[n], q)
    BY <1>1, <2>3 DEF Voted, Processes, SameLog
  <2>5. /\ r.of[n].role = t.of[n].role /\ r.of[n].term = m.term
        /\ r.of[n].voters = t.of[n].voters /\ SameLog(t.of[n], r.of[n])
    BY <1>5, <2>2, <2>4 DEF Considered, SameLog
  <2>6. VotesKept(s.of[n], m, r.of[n])
    BY <1>1, <1>5, <2>2, <2>4 DEF VotesKept, Considered, Keeps
  <2>7. RoleKept(s.of[n], m, r.of[n])
    BY <1>5, <2>5 DEF RoleKept, Counts, Keeps
  <2>8. LogKept(s.of[n], m, r.of[n])
    BY <1>5, <2>5 DEF LogKept, Keeps, SameLog
  <2> QED
    BY <1>5, <2>1, <2>2, <2>6, <2>7, <2>8 DEF Handles
<1>6. CASE m.term = s.of[n].term
  <2>1. r = ConsiderVote(s, n, m, "candidate")
    <3>1. ~(m.term < s.of[n].term)
      BY <1>2, <1>6
    <3> QED
      BY <1>6, <3>1, Zenon DEF CandidateRequestVote
  <2>2. Keeps(s.of[n], s.of[n]) /\ m.term >= s.of[n].term
    BY <1>2, <1>6 DEF Keeps, SameLog
  <2> QED
    BY <1>3, <1>5, <1>6, <2>1, <2>2
<1>7. CASE m.term > s.of[n].term
  <2>1. r = ConsiderVote(c, n, m, "candidate")
    <3>1. ~(m.term < s.of[n].term) /\ m.term # s.of[n].term
      BY <1>2, <1>7
    <3> QED
      BY <3>1, Zenon DEF CandidateRequestVote
  <2>2. c = ChangeRole(s, n, "follower", m.term) /\ "follower" \in Roles /\ m.term >= s.of[n].term
    BY <1>2, <1>7 DEF Roles
  <2> HIDE DEF c
  <2>3. Formed(c, e, u)
    BY <1>1, <2>2, ChangeRoleKeeps
  <2>4. /\ Carried(s, c) /\ \A k \in Managers : k # n => c.of[k] = s.of[k]
        /\ c.of[n].role = "follower" /\ c.of[n].term = m.term /\ Keeps(s.of[n], c.of[n])
    BY <1>1, <2>2, <2>3, ChangeRoleKeeps
  <2> QED
    BY <1>5, <2>1, <2>2, <2>3, <2>4
<1> QED
  BY <1>2, <1>4, <1>6, <1>7

LEMMA CandidateResponseVoteDoes ==
  ASSUME NEW e, NEW u, NEW s, NEW n, NEW m, NEW r,
         Formed(s, e, u), n \in Managers, s.of[n].role = "candidate",
         m \in Answers(e), r = CandidateResponseVote(s, n, m)
  PROVE  Handles(s, n, m, r, e, u)
<1> DEFINE own == s.of[n]
           p == [own EXCEPT !.voters = @ \cup {m.voter}]
           t == With(s, n, p)
           c == ChangeRole(s, n, "follower", m.term)
<1>1. /\ m.term \in UpTo(e) /\ m.voter \in Managers /\ m.type = "responseVote"
      /\ m.voteGranted \in BOOLEAN /\ own \in Processes(e, u)
  BY DEF Answers, Formed, States
<1>2. /\ p \in Processes(e, u) /\ p.role = own.role /\ p.term = own.term /\ SameLog(own, p)
      /\ p.voters = own.voters \cup {m.voter}
      /\ p.lastVoteTerm = own.lastVoteTerm /\ p.lastVoteFor = own.lastVoteFor
  BY <1>1 DEF Processes, SameLog
<1>3. t = With(s, n, p) /\ t = [s EXCEPT !.of[n].voters = @ \cup {m.voter}]
  BY DEF With
<1>4. c = ChangeRole(s, n, "follower", m.term) /\ "follower" \in Roles
  BY DEF Roles
<1> DEFINE majority == Cardinality(t.of[n].voters) > Cardinality(Managers) \div 2
<1>5. \/ r = s
      \/ r = c
      \/ /\ m.voteForTerm = own.term /\ m.voteGranted = TRUE
         /\ r = t \/ (majority /\ r = RunAsLeader(t, n))
  BY <1>1, <1>3 DEF CandidateResponseVote
<1> HIDE DEF p, t, c
<1>6. CASE r = s
  <2>1. VotesKept(own, m, own) /\ RoleKept(own, m, own) /\ LogKept(own, m, own)
    BY DEF VotesKept, RoleKept, Counts, LogKept, SameLog
  <2> QED
    BY <1>6, <2>1, NothingSent
<1>7. CASE r = c
  <2>1. Formed(c, e, u)
    BY <1>1, <1>4, ChangeRoleKeeps
  <2>2. /\ Carried(s, c) /\ \A k \in Managers : k # n => c.of[k] = s.of[k]
        /\ c.of[n].role = "follower" /\ Keeps(own, c.of[n])
    BY <1>1, <1>4, <2>1, ChangeRoleKeeps
  <2>3. MailKept(s, n, c)
    BY <2>2 DEF MailKept, Carried
  <2> QED
    BY <1>7, <2>1, <2>2, <2>3 DEF Handles, VotesKept, RoleKept, LogKept, Keeps
<1>8. CASE /\ m.voteForTerm = own.term /\ m.voteGranted = TRUE
           /\ r = t \/ (majority /\ r = RunAsLeader(t, n))
  <2>1. /\ Formed(t, e, u) /\ t.inbox = s.inbox /\ t.of[n] = p
        /\ \A k \in Managers : k # n => t.of[k] = s.of[k]
    <3>1. t = With(s, n, p) /\ p \in Processes(e, u) /\ p.role = s.of[n].role
      BY <1>2, <1>3
    <3> QED
      BY <3>1, UpdateDoes
  <2>2. Carried(s, t)
    BY <1>2, <2>1 DEF Carried
  <2>3. VotesKept(own, m, p) /\ LogKept(own, m, p)
    BY <1>2 DEF VotesKept, LogKept
  <2>4. CASE r = t
    <3>1. RoleKept(own, m, p)
      BY <1>1, <1>2, <1>8 DEF RoleKept, Counts
    <3> QED
      BY <1>2, <2>1, <2>3, <2>4, <3>1, NothingSent
  <2>5. CASE majority /\ r = RunAsLeader(t, n)
    <3>1. MailKept(s, n, r)
      BY <2>1, <2>2, <2>5, RunAsLeaderDoes
    <3>2. /\ Formed(r, e, u) /\ \A k \in Managers : k # n => r.of[k] = t.of[k]
          /\ r.of[n].role = "leader" /\ r.of[n].term = t.of[n].term /\ Keeps(t.of[n], r.of[n])
      BY <2>1, <2>2, <2>5, <3>1, RunAsLeaderDoes
    <3>3. 2 * Cardinality(p.voters) > Cardinality(Managers)
      <4>1. Cardinality(p.voters) > Cardinality(Managers) \div 2
        BY <2>1, <2>5
      <4>2. p.voters \subseteq Managers
        BY <1>2 DEF Processes
      <4>3. IsFiniteSet(p.voters)
        BY <4>2, ElectionAssumption, FS_Subset
      <4>4. Cardinality(p.voters) \in Nat /\ Cardinality(Managers) \in Nat
        BY <4>3, ElectionAssumption, FS_CardinalityType
      <4> QED
        BY <4>1, <4>4
    <3>4. RoleKept(own, m, r.of[n])
      BY <1>1, <1>2, <1>8, <2>1, <3>2, <3>3 DEF RoleKept, Counts, Keeps
    <3>5. VotesKept(own, m, r.of[n]) /\ LogKept(own, m, r.of[n])
      BY <1>2, <2>1, <3>2 DEF VotesKept, LogKept, Keeps, SameLog
    <3> QED
      BY <2>1, <3>1, <3>2, <3>4, <3>5 DEF Handles
  <2> QED
    BY <1>8, <2>4, <2>5
<1> QED
  BY <1>5, <1>6, <1>7, <1>8

LEMMA CandidateHeartbeatDoes ==
  ASSUME NEW e, NEW u, NEW s, NEW n, NEW m, NEW r,
         Formed(s, e, u), n \in Managers, s.of[n].role = "candidate",
         m \in Plain("heartbeart", e, u), r = CandidateHeartbeat(s, n, m)
  PROVE  Handles(s, n, m, r, e, u)
<1> DEFINE own == s.of[n]
           c == ChangeRole(s, n, "follower", m.term)
<1>1. m.term \in UpTo(e) /\ c = ChangeRole(s, n, "follower", m.term) /\ "follower" \in Roles
  BY DEF Plain, Roles
<1>2. r = s \/ r = c
  BY DEF CandidateHeartbeat
<1> HIDE DEF c
<1>3. CASE r = s
  <2>1. VotesKept(own, m, own) /\ RoleKept(own, m, own) /\ LogKept(own, m, own)
    BY DEF VotesKept, RoleKept, Counts, LogKept, SameLog
  <2> QED
    BY <1>3, <2>1, NothingSent
<1>4. CASE r = c
  <2>1. Formed(c, e, u)
    BY <1>1, ChangeRoleKeeps
  <2>2. /\ Carried(s, c) /\ \A k \in Managers : k # n => c.of[k] = s.of[k]
        /\ c.of[n].role = "follower" /\ Keeps(own, c.of[n])
    BY <1>1, <2>1, ChangeRoleKeeps
  <2>3. MailKept(s, n, c)
    BY <2>2 DEF MailKept, Carried
  <2> QED
    BY <1>4, <2>1, <2>2, <2>3 DEF Handles, VotesKept, RoleKept, LogKept, Keeps
<1> QED
  BY <1>2, <1>3, <1>4

LEMMA LeaderHeartbeatDoes ==
  ASSUME NEW e, NEW u, NEW s, NEW n, NEW m, NEW r,
         Formed(s, e, u), n \in Managers, s.of[n].role = "leader",
         m \in Plain("heartbeart", e, u), r = LeaderHeartbeat(s, n, m)
  PROVE  Handles(s, n, m, r, e, u)
<1>1. m.term \in UpTo(e)
  BY DEF Plain
<1>2. r = s \/ r = LeaveOffice(s, n, m.term)
  BY DEF LeaderHeartbeat
<1>3. CASE r = s
  <2>1. /\ VotesKept(s.of[n], m, s.of[n]) /\ RoleKept(s.of[n], m, s.of[n])
        /\ LogKept(s.of[n], m, s.of[n])
    BY DEF VotesKept, RoleKept, LogKept, SameLog
  <2> QED
    BY <1>3, <2>1, NothingSent
<1>4. CASE r = LeaveOffice(s, n, m.term)
  BY <1>1, <1>4, LeaveOfficeDoes
<1> QED
  BY <1>2, <1>3, <1>4

LEMMA LeaderInstallSnapshotDoes ==
  ASSUME NEW e, NEW u, NEW s, NEW n, NEW m, NEW r,
         Formed(s, e, u), n \in Managers, s.of[n].role = "leader",
         m \in Snapshots(e, u), r = LeaderInstallSnapshot(s, n, m)
  PROVE  Handles(s, n, m, r, e, u)
<1> DEFINE own == s.of[n]
           x == [Message(s, n, "installSnapshot") EXCEPT !.data = own.data]
           to == m.id
<1>1. own \in Processes(e, u)
  BY DEF Formed, States
<1>2. /\ x \in Snapshots(e, u) /\ x.type = "installSnapshot"
      /\ x.term = own.term /\ x.index = own.index /\ x.data = own.data
  BY <1>1 DEF Message, Snapshots, Processes
<1>3. r = SendTo(s, "follower", to, x)
  BY DEF LeaderInstallSnapshot
<1> HIDE DEF x, to
<1>4. x \in Mail("follower", e, u) /\ "follower" \in Roles
  BY <1>2 DEF Mail, Roles
<1>5. Formed(r, e, u) /\ r.of = s.of
  BY <1>3, <1>4, SendToDoes
<1>6. \A k \in Managers : \A y \in Of(r.inbox[k]) :
        y \in Of(s.inbox[k]) \/ (k = to /\ s.of[k].role = "follower" /\ y = x)
  BY <1>3, <1>4, <1>5, SendToDoes
<1>7. MailKept(s, n, r)
  BY <1>2, <1>5, <1>6 DEF MailKept, Sent
<1>8. VotesKept(own, m, own) /\ RoleKept(own, m, own) /\ LogKept(own, m, own)
  BY DEF VotesKept, RoleKept, LogKept, SameLog
<1> QED
  BY <1>5, <1>7, <1>8 DEF Handles

LEMMA HandledDoes ==
  ASSUME NEW e, NEW u, NEW s, NEW n, NEW m, NEW r,
         u \in Nat, Formed(s, e, u), n \in Managers, m \in Mail(s.of[n].role, e, u),
         r = Handled(s, n, m)
  PROVE  Handles(s, n, m, r, e, u)
<1> DEFINE role == s.of[n].role
<1>1. role \in Roles
  BY DEF Formed, States, Processes
<1>2. /\ m \in Plain("heartbeart", e, u) => m.type = "heartbeart"
      /\ m \in Plain("requestVote", e, u) => m.type = "requestVote"
      /\ m \in Answers(e) => m.type = "responseVote"
      /\ m \in Entries(e, u) => m.type = "appendEntry"
      /\ m \in Snapshots(e, u) => m.type = "installSnapshot"
  BY DEF Plain, Answers, Entries, Snapshots
<1>3. CASE role = "absent"
  BY <1>3 DEF Mail
<1>4. CASE role = "follower"
  <2>1. CASE m \in Plain("heartbeart", e, u)
    BY <1>2, <1>4, <2>1, FollowerHeartbeatDoes DEF Handled
  <2>2. CASE m \in Plain("requestVote", e, u)
    BY <1>2, <1>4, <2>2, FollowerRequestVoteDoes DEF Handled
  <2>3. CASE m \in Entries(e, u)
    BY <1>2, <1>4, <2>3, FollowerAppendEntryDoes DEF Handled
  <2>4. CASE m \in Snapshots(e, u)
    BY <1>2, <1>4, <2>4, FollowerInstallSnapshotDoes DEF Handled
  <2> QED
    BY <1>4, <2>1, <2>2, <2>3, <2>4 DEF Mail
<1>5. CASE role = "candidate"
  <2>1. CASE m \in Plain("heartbeart", e, u)
    BY <1>2, <1>5, <2>1, CandidateHeartbeatDoes DEF Handled
  <2>2. CASE m \in Plain("requestVote", e, u)
    BY <1>2, <1>5, <2>2, CandidateRequestVoteDoes DEF Handled
  <2>3. CASE m \in Answers(e)
    BY <1>2, <1>5, <2>3, CandidateResponseVoteDoes DEF Handled
  <2> QED
    BY <1>5, <2>1, <2>2, <2>3 DEF Mail
<1>6. CASE role = "leader"
  <2>1. CASE m \in Plain("heartbeart", e, u)
    BY <1>2, <1>6, <2>1, LeaderHeartbeatDoes DEF Handled
  <2>2. CASE m \in Snapshots(e, u)
    BY <1>2, <1>6, <2>2, LeaderInstallSnapshotDoes DEF Handled
  <2> QED
    BY <1>6, <2>1, <2>2 DEF Mail
<1> QED
  BY <1>1, <1>3, <1>4, <1>5, <1>6 DEF Roles

\* The message is taken from the topic before its handler runs.
Popped(s, n) == [s EXCEPT !.inbox[n] = Tail(@)]

LEMMA PoppedDoes ==
  ASSUME NEW e, NEW u, NEW s, NEW n, NEW r,
         Formed(s, e, u), n \in Managers, s.inbox[n] # None, r = Popped(s, n)
  PROVE  /\ Formed(r, e, u) /\ r.of = s.of
         /\ Head(s.inbox[n]) \in Of(s.inbox[n]) /\ Head(s.inbox[n]) \in Mail(s.of[n].role, e, u)
         /\ \A k \in Managers : Of(r.inbox[k]) \subseteq Of(s.inbox[k])
<1>1. s \in States(e, u) /\ s.inbox[n] \in Seq(AnyMail(e, u))
  BY DEF Formed, States
<1>2. /\ Tail(s.inbox[n]) \in Seq(AnyMail(e, u)) /\ Of(Tail(s.inbox[n])) \subseteq Of(s.inbox[n])
      /\ Head(s.inbox[n]) \in Of(s.inbox[n])
  BY <1>1, OfTail DEF None
<1>3. r = [s EXCEPT !.inbox[n] = Tail(s.inbox[n])]
  BY DEF Popped
<1>4. r \in States(e, u) /\ r.of = s.of
      /\ \A k \in Managers : r.inbox[k] = IF k = n THEN Tail(s.inbox[n]) ELSE s.inbox[k]
  BY <1>1, <1>2, <1>3 DEF States
<1>5. \A k \in Managers : Of(r.inbox[k]) \subseteq Of(s.inbox[k])
  BY <1>2, <1>4
<1> QED
  BY <1>2, <1>4, <1>5 DEF Formed

-----------------------------------------------------------------------------
(* Elections: s is a state, V the votes given so far                        *)

Majority(S) == 2 * Cardinality(S) > Cardinality(Managers)
VotersFor(V, term, c) == {v \in Managers : <<v, term, c>> \in V}

\* The last vote of a manager has been given.
Remembered(s, V) ==
  \A k \in Managers :
    s.of[k].lastVoteFor # NoOne => <<k, s.of[k].lastVoteTerm, s.of[k].lastVoteFor>> \in V

\* So has a vote that is on its way.
Backed(s, V) ==
  \A k \in Managers : \A x \in Of(s.inbox[k]) :
    x.type = "responseVote" => x.voteGranted = FALSE \/ <<x.voter, x.voteForTerm, k>> \in V

\* And those that a candidate counts, more than half for a leader.
Counted(s, V) ==
  \A k \in Managers : s.of[k].role \in {"candidate", "leader"} =>
    /\ s.of[k].term >= 0
    /\ \A v \in s.of[k].voters : <<v, s.of[k].term, k>> \in V
    /\ s.of[k].role = "leader" => Majority(s.of[k].voters)

Elected(s, V) == Remembered(s, V) /\ Backed(s, V) /\ Counted(s, V)

LEMMA ElectedKept ==
  ASSUME NEW e, NEW u, NEW s, NEW n \in Managers, NEW m, NEW r, NEW V, NEW W,
         Formed(s, e, u), Handles(s, n, m, r, e, u), Elected(s, V), V \subseteq W,
         m.type = "responseVote" => m.voteGranted = FALSE \/ <<m.voter, m.voteForTerm, n>> \in V,
         m.type = "requestVote" /\ r.of[n].lastVoteFor = m.id /\ r.of[n].lastVoteTerm = m.term
           => <<n, m.term, m.id>> \in W
  PROVE  Elected(r, W)
<1>1. \A k \in Managers : k # n => r.of[k] = s.of[k]
  BY DEF Handles
<1>2. Remembered(r, W)
  <2> SUFFICES ASSUME NEW k \in Managers, r.of[k].lastVoteFor # NoOne
               PROVE  <<k, r.of[k].lastVoteTerm, r.of[k].lastVoteFor>> \in W
    BY DEF Remembered
  <2>1. CASE k # n
    BY <1>1, <2>1 DEF Elected, Remembered
  <2>2. CASE k = n
    <3>1. VotesKept(s.of[n], m, r.of[n])
      BY DEF Handles
    <3>2. CASE r.of[n].lastVoteTerm = s.of[n].lastVoteTerm /\ r.of[n].lastVoteFor = s.of[n].lastVoteFor
      BY <2>2, <3>2 DEF Elected, Remembered
    <3>3. CASE m.type = "requestVote" /\ r.of[n].lastVoteTerm = m.term /\ r.of[n].lastVoteFor = m.id
      BY <2>2, <3>3
    <3> QED
      BY <3>1, <3>2, <3>3 DEF VotesKept
  <2> QED
    BY <2>1, <2>2
<1>3. Backed(r, W)
  <2> SUFFICES ASSUME NEW k \in Managers, NEW x \in Of(r.inbox[k]),
                      x.type = "responseVote", x.voteGranted # FALSE
               PROVE  <<x.voter, x.voteForTerm, k>> \in W
    BY DEF Backed
  <2>1. Sent(s, r, n, k, x) \/ x \in Of(s.inbox[k])
    BY DEF Handles, MailKept
  <2>2. CASE Sent(s, r, n, k, x)
    <3>1. x.voter = n /\ k = r.of[n].lastVoteFor /\ x.voteForTerm = r.of[n].lastVoteTerm
      BY <2>2 DEF Sent
    <3>2. k # NoOne
      BY ElectionAssumption
    <3> QED
      BY <1>2, <3>1, <3>2 DEF Remembered
  <2>3. CASE x \in Of(s.inbox[k])
    BY <2>3 DEF Elected, Backed
  <2> QED
    BY <2>1, <2>2, <2>3
<1>4. Counted(r, W)
  <2> SUFFICES ASSUME NEW k \in Managers, r.of[k].role \in {"candidate", "leader"}
               PROVE  /\ r.of[k].term >= 0
                      /\ \A v \in r.of[k].voters : <<v, r.of[k].term, k>> \in W
                      /\ r.of[k].role = "leader" => Majority(r.of[k].voters)
    BY DEF Counted
  <2>1. CASE k # n
    BY <1>1, <2>1 DEF Elected, Counted
  <2>2. CASE k = n
    <3>1. RoleKept(s.of[n], m, r.of[n]) /\ r.of[n].role \notin {"follower", "absent"}
      BY <2>2 DEF Handles
    <3>2. CASE r.of[n].role = "leader" /\ s.of[n].role = "leader" /\ r.of[n].term = s.of[n].term
               /\ r.of[n].voters = s.of[n].voters
      BY <2>2, <3>2 DEF Elected, Counted
    <3>3. CASE Counts(s.of[n], m, r.of[n])
      <4>1. s.of[n].term >= 0 /\ \A v \in s.of[n].voters : <<v, s.of[n].term, n>> \in V
        BY <3>3 DEF Counts, Elected, Counted
      <4>2. \A v \in r.of[n].voters \ s.of[n].voters : <<v, s.of[n].term, n>> \in V
        BY <3>3 DEF Counts
      <4>3. r.of[n].term = s.of[n].term /\ (r.of[n].role = "leader" => Majority(r.of[n].voters))
        BY <3>3 DEF Counts, Majority
      <4> QED
        BY <2>2, <4>1, <4>2, <4>3
    <3> QED
      BY <3>1, <3>2, <3>3 DEF RoleKept
  <2> QED
    BY <2>1, <2>2
<1> QED
  BY <1>2, <1>3, <1>4 DEF Elected

\* The votes of a manager are for terms up to that of the last one, which is the only one for
\* its term; a candidate has forgotten it, but is in a later term.
VotedUpTo(p, v) ==
  /\ v[2] <= p.lastVoteTerm
  /\ v[2] = p.lastVoteTerm => p.lastVoteFor = v[3] \/ (p.lastVoteFor = NoOne /\ p.term > p.lastVoteTerm)
Once(s, V) ==
  /\ \A k \in Managers : s.of[k].lastVoteTerm <= s.of[k].term
  /\ \A v \in V : VotedUpTo(s.of[v[1]], v)
  /\ \A v, w \in V : v[1] = w[1] /\ v[2] = w[2] => v[3] = w[3]

Ballots(e) == Managers \X UpTo(e) \X Managers

LEMMA OnceKept ==
  ASSUME NEW e \in Nat, NEW u, NEW s, NEW n \in Managers, NEW m, NEW r, NEW V, NEW W,
         Formed(s, e, u), Handles(s, n, m, r, e, u), V \subseteq Ballots(e), Once(s, V),
         r.of[n].term >= s.of[n].term,
         \/ W = V
         \/ /\ W = V \cup {<<n, m.term, m.id>>} /\ m.term \in UpTo(e) /\ m.id \in Managers
            /\ r.of[n].lastVoteFor = m.id /\ r.of[n].lastVoteTerm = m.term
  PROVE  Once(r, W)
<1> DEFINE p == s.of[n]
           q == r.of[n]
<1>1. /\ \A k \in Managers : k # n => r.of[k] = s.of[k]
      /\ VotesKept(p, m, q)
  BY DEF Handles
<1>2. p \in Processes(e, u) /\ q \in Processes(e, u)
  BY DEF Handles, Formed, States
<1>3. /\ p.term \in Int /\ q.term \in Int /\ p.lastVoteTerm \in Int /\ q.lastVoteTerm \in Int
      /\ q.term >= p.term /\ p.lastVoteTerm <= p.term
  <2>1. UpTo(e) \subseteq Int
    BY DEF UpTo, DEFAULT_DATA
  <2>2. \A x \in Processes(e, u) : x.term \in UpTo(e) /\ x.lastVoteTerm \in UpTo(e)
    BY DEF Processes
  <2>3. p.lastVoteTerm <= p.term
    BY DEF Once
  <2> HIDE DEF p, q
  <2>4. p.term \in Int /\ q.term \in Int /\ p.lastVoteTerm \in Int /\ q.lastVoteTerm \in Int
    BY <1>2, <2>1, <2>2
  <2>5. q.term >= p.term
    BY DEF p, q
  <2> QED
    BY <2>3, <2>4, <2>5
<1>4. NoOne \notin Managers
  BY ElectionAssumption
<1> HIDE DEF p, q
<1>5. \A v \in V : v[1] \in Managers /\ v[2] \in Int /\ v[3] \in Managers
  BY DEF Ballots, UpTo, DEFAULT_DATA
<1>6. q.lastVoteTerm <= q.term
  BY <1>1, <1>3 DEF VotesKept
<1>7. ASSUME NEW v \in V, v[1] = n
      PROVE  VotedUpTo(q, v)
  <2>1. VotedUpTo(p, v)
    BY <1>7 DEF Once, p
  <2>2. CASE q.lastVoteTerm = p.lastVoteTerm /\ q.lastVoteFor = p.lastVoteFor
    BY <1>3, <1>5, <2>1, <2>2 DEF VotedUpTo
  <2>3. CASE /\ q.lastVoteTerm = m.term /\ q.lastVoteFor = m.id /\ m.term >= p.term
             /\ p.lastVoteFor = NoOne \/ p.lastVoteTerm # m.term
    <3>1. v[2] <= p.lastVoteTerm /\ p.lastVoteTerm <= p.term /\ p.term <= q.lastVoteTerm
      BY <1>3, <2>1, <2>3 DEF VotedUpTo
    <3>2. v[2] # q.lastVoteTerm
      <4>1. SUFFICES ASSUME v[2] = q.lastVoteTerm PROVE FALSE
        OBVIOUS
      <4>2. v[2] = p.lastVoteTerm /\ p.term = p.lastVoteTerm /\ p.lastVoteTerm = m.term
        BY <1>3, <1>5, <2>3, <3>1, <4>1
      <4>3. p.lastVoteFor = NoOne
        BY <2>3, <4>2
      <4>4. p.lastVoteFor = v[3]
        BY <1>3, <2>1, <4>2 DEF VotedUpTo
      <4> QED
        BY <1>4, <1>5, <4>3, <4>4
    <3>3. v[2] <= q.lastVoteTerm
      BY <1>3, <1>5, <3>1
    <3> QED
      BY <3>2, <3>3 DEF VotedUpTo
  <2> QED
    BY <1>1, <2>2, <2>3 DEF VotesKept
<1>8. \A v \in V : VotedUpTo(r.of[v[1]], v)
  <2> TAKE v \in V
  <2>1. CASE v[1] = n
    BY <1>7, <2>1 DEF q
  <2>2. CASE v[1] # n
    BY <1>1, <1>5, <2>2 DEF Once
  <2> QED
    BY <2>1, <2>2
<1>9. \A k \in Managers : r.of[k].lastVoteTerm <= r.of[k].term
  <2> TAKE k \in Managers
  <2>1. CASE k = n
    BY <1>6, <2>1 DEF q
  <2>2. CASE k # n
    BY <1>1, <2>2 DEF Once
  <2> QED
    BY <2>1, <2>2
<1>10. CASE W = V
  BY <1>8, <1>9, <1>10 DEF Once
<1>11. CASE /\ W = V \cup {<<n, m.term, m.id>>} /\ m.term \in UpTo(e) /\ m.id \in Managers
            /\ q.lastVoteFor = m.id /\ q.lastVoteTerm = m.term
  <2> DEFINE new == <<n, m.term, m.id>>
  <2>1. new[1] = n /\ new[2] = q.lastVoteTerm /\ new[3] = q.lastVoteFor /\ W = V \cup {new}
    BY <1>11
  <2> HIDE DEF new
  <2>2. VotedUpTo(r.of[new[1]], new)
    BY <1>3, <2>1 DEF VotedUpTo, q
  <2>3. \A v \in V : v[1] = n /\ v[2] = q.lastVoteTerm => v[3] = q.lastVoteFor
    <3> SUFFICES ASSUME NEW v \in V, v[1] = n, v[2] = q.lastVoteTerm
                 PROVE  v[3] = q.lastVoteFor
      OBVIOUS
    <3>1. VotedUpTo(q, v)
      BY <1>7
    <3>2. q.lastVoteFor # NoOne
      BY <1>4, <1>11
    <3> QED
      BY <3>1, <3>2 DEF VotedUpTo
  <2>4. \A v, w \in W : v[1] = w[1] /\ v[2] = w[2] => v[3] = w[3]
    BY <2>1, <2>3 DEF Once
  <2>5. \A v \in W : VotedUpTo(r.of[v[1]], v)
    BY <1>8, <2>1, <2>2
  <2> QED
    BY <1>9, <2>4, <2>5 DEF Once
<1> QED
  BY <1>10, <1>11 DEF q

LEMMA MajorityGrows ==
  ASSUME NEW S, NEW Z, S \subseteq Z, Z \subseteq Managers, Majority(S)
  PROVE  Majority(Z)
<1>1. IsFiniteSet(Z) /\ IsFiniteSet(S)
  BY ElectionAssumption, FS_Subset
<1>2. Cardinality(S) <= Cardinality(Z)
  BY <1>1, FS_Subset
<1>3. Cardinality(S) \in Nat /\ Cardinality(Z) \in Nat /\ Cardinality(Managers) \in Nat
  BY <1>1, ElectionAssumption, FS_CardinalityType
<1> QED
  BY <1>2, <1>3 DEF Majority

LEMMA OneWinner ==
  ASSUME NEW s, NEW V, Once(s, V), NEW term, NEW a, NEW b,
         Majority(VotersFor(V, term, a)), Majority(VotersFor(V, term, b))
  PROVE  a = b
<1> DEFINE A == VotersFor(V, term, a)
           B == VotersFor(V, term, b)
<1>1. A \subseteq Managers /\ B \subseteq Managers
  BY DEF VotersFor
<1>2. IsFiniteSet(A) /\ IsFiniteSet(B)
  BY <1>1, ElectionAssumption, FS_Subset
<1>3. Cardinality(A) \in Nat /\ Cardinality(B) \in Nat /\ Cardinality(Managers) \in Nat
  BY <1>2, ElectionAssumption, FS_CardinalityType
<1>4. Cardinality(A) + Cardinality(B) > Cardinality(Managers)
  <2> HIDE DEF A, B
  <2>1. 2 * Cardinality(A) > Cardinality(Managers) /\ 2 * Cardinality(B) > Cardinality(Managers)
    BY DEF Majority, A, B
  <2> QED
    BY <1>3, <2>1
<1>5. A \cap B # {}
  <2> HIDE DEF A, B
  <2> QED
    BY <1>1, <1>4, ElectionAssumption, FS_MajoritiesIntersect
<1>6. PICK v \in Managers : <<v, term, a>> \in V /\ <<v, term, b>> \in V
  BY <1>5 DEF VotersFor
<1> QED
  BY <1>6 DEF Once

\* A leader has the votes of more than half for its term.
LEMMA LeaderHasWon ==
  ASSUME NEW s, NEW V, NEW e, NEW u, Formed(s, e, u), Elected(s, V),
         NEW k \in Managers, s.of[k].role = "leader"
  PROVE  Majority(VotersFor(V, s.of[k].term, k)) /\ s.of[k].term >= 0
<1>1. s.of[k].term >= 0 /\ Majority(s.of[k].voters) /\ \A v \in s.of[k].voters : <<v, s.of[k].term, k>> \in V
  BY DEF Elected, Counted
<1>2. s.of[k].voters \subseteq Managers
  BY DEF Formed, States, Processes
<1>3. s.of[k].voters \subseteq VotersFor(V, s.of[k].term, k) /\ VotersFor(V, s.of[k].term, k) \subseteq Managers
  BY <1>1, <1>2 DEF VotersFor
<1> QED
  BY <1>1, <1>3, MajorityGrows

-----------------------------------------------------------------------------
(* Copies of the data                                                       *)

\* Someone has won the term, and is past being a candidate in it.
Won(s, V, term) ==
  \E c \in Managers :
    /\ Majority(VotersFor(V, term, c))
    /\ s.of[c].term > term \/ (s.of[c].term = term /\ s.of[c].role # "candidate")

\* A term and an index at which there may be an entry: nothing is ahead of the leader of a term.
Place(s, V, term, index) ==
  /\ term # DEFAULT_DATA => Won(s, V, term)
  /\ \A l \in Managers : s.of[l].role = "leader" /\ s.of[l].term = term => index <= s.of[l].index

\* H says for all places what the data is that whole managers have there.
Histories == [Int \X Int -> Seq(Nat)]
Claim(H, term, index, data) ==
  Len(data) <= index + 1 /\ (Len(data) = index + 1 => data = H[<<term, index>>])

ManagerFits(s, V, H, k) ==
  LET p == s.of[k] IN
  /\ Place(s, V, p.logTerm, p.index) /\ Claim(H, p.logTerm, p.index, p.data)
  /\ p.role = "leader" =>
       Place(s, V, p.term, p.index) /\ H[<<p.term, p.index>>] = H[<<p.logTerm, p.index>>]
MessageFits(s, V, H, k, x) ==
  /\ x.type = "installSnapshot" /\ s.of[k].role = "follower" =>
       Place(s, V, x.term, x.index) /\ Claim(H, x.term, x.index, x.data)
  /\ x.type = "appendEntry" =>
       /\ Place(s, V, x.term, x.index + 1) /\ Place(s, V, x.logTerm, x.index)
       /\ H[<<x.term, x.index + 1>>] = H[<<x.logTerm, x.index>>] \o x.data
Copies(s, V, H) ==
  \A k \in Managers : ManagerFits(s, V, H, k) /\ \A x \in Of(s.inbox[k]) : MessageFits(s, V, H, k, x)

\* What may be said at a place stays so.
PlacesStay(s, V, H, r, W, G) ==
  \A term, index \in Int :
    Place(s, V, term, index) => Place(r, W, term, index) /\ G[<<term, index>>] = H[<<term, index>>]

LEMMA VotersGrow ==
  ASSUME NEW V, NEW W, V \subseteq W, NEW term, NEW c, Majority(VotersFor(V, term, c))
  PROVE  Majority(VotersFor(W, term, c))
<1>1. VotersFor(V, term, c) \subseteq VotersFor(W, term, c) /\ VotersFor(W, term, c) \subseteq Managers
  BY DEF VotersFor
<1> QED
  BY <1>1, MajorityGrows

LEMMA FieldsFormed ==
  ASSUME NEW e, NEW u, NEW s, NEW k, Formed(s, e, u), k \in Managers
  PROVE  /\ s.of[k] \in Processes(e, u)
         /\ s.of[k].term \in Int /\ s.of[k].logTerm \in Int /\ s.of[k].index \in Int
         /\ s.of[k].data \in Seq(Nat) /\ s.of[k].role \in Roles
<1>1. s.of[k] \in Processes(e, u)
  BY DEF Formed, States
<1>2. UpTo(e) \subseteq Int /\ UpTo(u) \subseteq Int
  BY DEF UpTo, DEFAULT_DATA
<1> QED
  BY <1>1, <1>2 DEF Processes

LEMMA PlacesKept ==
  ASSUME NEW e \in Nat, NEW u, NEW s, NEW n \in Managers, NEW m, NEW r, NEW V, NEW W,
         Formed(s, e, u), Handles(s, n, m, r, e, u), V \subseteq W, Elected(r, W), Once(r, W),
         r.of[n].term >= s.of[n].term,
         NEW term \in Int, NEW index \in Int, Place(s, V, term, index)
  PROVE  /\ Place(r, W, term, index)
         /\ r.of[n].role = "leader" /\ s.of[n].role # "leader" => term # r.of[n].term
<1> DEFINE p == s.of[n]
           q == r.of[n]
<1>1. /\ \A k \in Managers : k # n => r.of[k] = s.of[k]
      /\ RoleKept(p, m, q) /\ LogKept(p, m, q) /\ Formed(r, e, u)
  BY DEF Handles
<1>2. p.term \in Int /\ q.term \in Int /\ q.term >= p.term
  BY <1>1, FieldsFormed
<1> HIDE DEF p, q
<1>3. ASSUME term # DEFAULT_DATA PROVE Won(r, W, term)
  <2>1. PICK c \in Managers :
          /\ Majority(VotersFor(V, term, c))
          /\ s.of[c].term > term \/ (s.of[c].term = term /\ s.of[c].role # "candidate")
    BY <1>3 DEF Place, Won
  <2>2. Majority(VotersFor(W, term, c))
    BY <2>1, VotersGrow
  <2>3. CASE c # n
    BY <1>1, <2>1, <2>2, <2>3 DEF Won
  <2>4. CASE c = n /\ p.term > term
    <3>1. q.term > term
      BY <1>2, <2>4
    <3> QED
      BY <2>2, <2>4, <3>1 DEF Won, q
  <2>5. CASE c = n /\ p.term = term /\ p.role # "candidate"
    <3>1. q.role # "candidate"
      BY <1>1, <2>5 DEF RoleKept, Counts
    <3>2. q.term > term \/ q.term = term
      BY <1>2, <2>5
    <3> QED
      BY <2>2, <2>5, <3>1, <3>2 DEF Won, q
  <2> QED
    BY <2>1, <2>3, <2>4, <2>5 DEF p
<1>4. ASSUME q.role = "leader", p.role # "leader" PROVE term # q.term
  <2>1. SUFFICES ASSUME term = q.term PROVE FALSE
    OBVIOUS
  <2>2. Majority(VotersFor(W, term, n)) /\ term >= 0
    BY <1>1, <1>4, <2>1, LeaderHasWon DEF q
  <2>3. p.role = "candidate" /\ p.term = term
    BY <1>1, <1>4, <2>1 DEF RoleKept, Counts
  <2>4. PICK c \in Managers :
          /\ Majority(VotersFor(V, term, c))
          /\ s.of[c].term > term \/ (s.of[c].term = term /\ s.of[c].role # "candidate")
    BY <2>2 DEF Place, Won, DEFAULT_DATA
  <2>5. c = n
    <3>1. Majority(VotersFor(W, term, c))
      BY <2>4, VotersGrow
    <3> QED
      BY <2>2, <3>1, OneWinner
  <2> QED
    BY <2>3, <2>4, <2>5 DEF p
<1>5. ASSUME NEW l \in Managers, r.of[l].role = "leader", r.of[l].term = term
      PROVE  index <= r.of[l].index
  <2>1. CASE l # n
    BY <1>1, <1>5, <2>1 DEF Place
  <2>2. CASE l = n
    <3>1. p.role = "leader"
      BY <1>4, <1>5, <2>2 DEF q
    <3>2. q.term = p.term /\ q.index = p.index
      BY <1>1, <1>5, <2>2, <3>1 DEF RoleKept, Counts, LogKept, SameLog, q
    <3> QED
      BY <1>5, <2>2, <3>1, <3>2 DEF Place, p, q
  <2> QED
    BY <2>1, <2>2
<1> QED
  BY <1>3, <1>4, <1>5 DEF Place, p, q

\* Copies that were at places of s are at places of r, too.
LEMMA ClaimStays ==
  ASSUME NEW s, NEW V, NEW H, NEW r, NEW W, NEW G, PlacesStay(s, V, H, r, W, G),
         NEW term, NEW index, NEW data, term \in Int, index \in Int,
         Place(s, V, term, index), Claim(H, term, index, data)
  PROVE  Place(r, W, term, index) /\ Claim(G, term, index, data)
BY DEF PlacesStay, Claim

LEMMA ClaimShorter ==
  ASSUME NEW H, NEW term, NEW index \in Int, NEW data \in Seq(Nat), Len(data) <= index
  PROVE  Claim(H, term, index, data)
<1>1. Len(data) \in Nat
  OBVIOUS
<1>2. Len(data) <= index + 1 /\ Len(data) # index + 1
  BY <1>1
<1> QED
  BY <1>2 DEF Claim

LEMMA OneMore ==
  ASSUME NEW data \in Seq(Nat), NEW d \in Seq(Nat), Len(d) = 1
  PROVE  data \o d \in Seq(Nat) /\ Len(data \o d) = Len(data) + 1 /\ Len(data) \in Nat
<1>1. data \o d \in Seq(Nat) /\ Len(data \o d) = Len(data) + Len(d)
  BY ConcatProperties
<1>2. Len(data) \in Nat
  BY LenProperties
<1> QED
  BY <1>1, <1>2

LEMMA ClaimNext ==
  ASSUME NEW H, NEW t, NEW term, NEW index \in Int, NEW data \in Seq(Nat), NEW d \in Seq(Nat),
         NEW more, more = data \o d, Len(d) = 1, Claim(H, t, index, data),
         NEW h, h = H[<<t, index>>], H[<<term, index + 1>>] = h \o d
  PROVE  Claim(H, term, index + 1, more)
<1>1. Len(more) = Len(data) + 1 /\ Len(data) \in Nat
  BY OneMore
<1>2. Len(data) <= index + 1 /\ (Len(data) = index + 1 => data = h)
  BY DEF Claim
<1>3. \A a, b \in Int : a = b + 1 /\ b <= index + 1 =>
        a <= index + 1 + 1 /\ (a = index + 1 + 1 => b = index + 1)
  OBVIOUS
<1>4. /\ Len(more) <= index + 1 + 1
      /\ Len(more) = index + 1 + 1 => Len(data) = index + 1
  <2>1. Len(more) \in Int /\ Len(data) \in Int
    BY <1>1
  <2> QED
    BY <1>1, <1>2, <1>3, <2>1, Zenon
<1>5. Len(more) = index + 1 + 1 => more = H[<<term, index + 1>>]
  BY <1>2, <1>4
<1> QED
  BY <1>4, <1>5 DEF Claim

LEMMA MessageInts ==
  ASSUME NEW e, NEW u, NEW s, NEW k, NEW x, Formed(s, e, u), k \in Managers,
         x \in Mail(s.of[k].role, e, u), x.type \in {"installSnapshot", "appendEntry"}
  PROVE  x.term \in Int /\ x.logTerm \in Int /\ x.index \in Int /\ x.data \in Seq(Nat)
         /\ (x.type = "appendEntry" => Len(x.data) = 1)
<1>1. UpTo(e) \subseteq Int /\ UpTo(u) \subseteq Int /\ UpTo(u - 1) \subseteq Int
  BY DEF UpTo, DEFAULT_DATA
<1>2. x \in Entries(e, u) \/ x \in Snapshots(e, u)
  BY DEF Mail, Plain, Answers
<1> QED
  BY <1>1, <1>2 DEF Entries, Snapshots

LEMMA MessageStays ==
  ASSUME NEW e, NEW u, NEW s, NEW V, NEW H, NEW r, NEW W, NEW G, NEW k, NEW x,
         Formed(s, e, u), k \in Managers, x \in Mail(s.of[k].role, e, u),
         PlacesStay(s, V, H, r, W, G), MessageFits(s, V, H, k, x), r.of[k].role = s.of[k].role
  PROVE  MessageFits(r, W, G, k, x)
<1>1. CASE x.type = "installSnapshot" /\ s.of[k].role = "follower"
  <2>1. Place(s, V, x.term, x.index) /\ Claim(H, x.term, x.index, x.data)
    BY <1>1 DEF MessageFits
  <2>2. x.term \in Int /\ x.index \in Int
    BY <1>1, MessageInts
  <2>3. Place(r, W, x.term, x.index) /\ Claim(G, x.term, x.index, x.data)
    BY <2>1, <2>2, ClaimStays
  <2> QED
    BY <1>1, <2>3 DEF MessageFits
<1>2. CASE x.type = "appendEntry"
  <2>1. x.term \in Int /\ x.index \in Int /\ x.logTerm \in Int /\ x.index + 1 \in Int
    <3>1. x.term \in Int /\ x.index \in Int /\ x.logTerm \in Int
      BY <1>2, MessageInts
    <3> QED
      BY <3>1
  <2>2. /\ Place(s, V, x.term, x.index + 1) /\ Place(s, V, x.logTerm, x.index)
        /\ H[<<x.term, x.index + 1>>] = H[<<x.logTerm, x.index>>] \o x.data
    BY <1>2 DEF MessageFits
  <2>3. Place(r, W, x.term, x.index + 1) /\ G[<<x.term, x.index + 1>>] = H[<<x.term, x.index + 1>>]
    BY <2>1, <2>2 DEF PlacesStay
  <2>4. Place(r, W, x.logTerm, x.index) /\ G[<<x.logTerm, x.index>>] = H[<<x.logTerm, x.index>>]
    BY <2>1, <2>2 DEF PlacesStay
  <2> QED
    BY <1>2, <2>2, <2>3, <2>4 DEF MessageFits
<1> QED
  BY <1>1, <1>2 DEF MessageFits

LEMMA ManagerStays ==
  ASSUME NEW e, NEW u, NEW s, NEW V, NEW H, NEW r, NEW W, NEW G, NEW k,
         Formed(s, e, u), k \in Managers,
         PlacesStay(s, V, H, r, W, G), ManagerFits(s, V, H, k), SameLog(s.of[k], r.of[k]),
         r.of[k].role = "leader" => s.of[k].role = "leader" /\ r.of[k].term = s.of[k].term
  PROVE  ManagerFits(r, W, G, k)
<1> DEFINE p == s.of[k]
           q == r.of[k]
<1>1. p.term \in Int /\ p.logTerm \in Int /\ p.index \in Int
  BY FieldsFormed
<1>2. q.index = p.index /\ q.logTerm = p.logTerm /\ q.data = p.data
  BY DEF SameLog
<1>3. Place(s, V, p.logTerm, p.index) /\ Claim(H, p.logTerm, p.index, p.data)
  BY DEF ManagerFits
<1>4. p.role = "leader" => Place(s, V, p.term, p.index) /\ H[<<p.term, p.index>>] = H[<<p.logTerm, p.index>>]
  BY DEF ManagerFits
<1> HIDE DEF p, q
<1>5. /\ Place(r, W, p.logTerm, p.index) /\ Claim(G, p.logTerm, p.index, p.data)
      /\ G[<<p.logTerm, p.index>>] = H[<<p.logTerm, p.index>>]
  BY <1>1, <1>3, ClaimStays DEF PlacesStay
<1>6. p.role = "leader" => Place(r, W, p.term, p.index) /\ G[<<p.term, p.index>>] = G[<<p.logTerm, p.index>>]
  BY <1>1, <1>4, <1>5 DEF PlacesStay
<1>7. q.role = "leader" => p.role = "leader" /\ q.term = p.term
  BY DEF p, q
<1> QED
  BY <1>2, <1>5, <1>6, <1>7 DEF ManagerFits, q

\* What a message does to the copy of the manager that handles it.
LEMMA HandlerFits ==
  ASSUME NEW e, NEW u, NEW s, NEW n \in Managers, NEW m, NEW r, NEW V, NEW H, NEW W, NEW G,
         Formed(s, e, u), Handles(s, n, m, r, e, u), PlacesStay(s, V, H, r, W, G),
         ManagerFits(s, V, H, n),
         m.type \in {"installSnapshot", "appendEntry"} => m \in Mail(s.of[n].role, e, u),
         MessageFits(s, V, H, n, m), r.of[n].role # "leader"
  PROVE  ManagerFits(r, W, G, n)
<1> DEFINE p == s.of[n]
           q == r.of[n]
<1>1. /\ p.logTerm \in Int /\ p.index \in Int /\ p.data \in Seq(Nat)
      /\ q.data \in Seq(Nat)
  BY FieldsFormed DEF Handles
<1>2. LogKept(p, m, q)
  BY DEF Handles
<1>3. CASE SameLog(p, q)
  BY <1>3, ManagerStays
<1>4. CASE /\ m.type = "appendEntry" /\ p.role = "follower"
           /\ p.index = m.index /\ p.logTerm = m.logTerm
           /\ q.index = m.index + 1 /\ q.logTerm = m.term /\ q.data \in {p.data, p.data \o m.data}
  <2>1. /\ m.term \in Int /\ m.logTerm \in Int /\ m.index \in Int /\ m.index + 1 \in Int
        /\ m.data \in Seq(Nat) /\ Len(m.data) = 1
    <3>1. m \in Mail(s.of[n].role, e, u)
      BY <1>4
    <3>2. m.term \in Int /\ m.logTerm \in Int /\ m.index \in Int /\ m.data \in Seq(Nat) /\ Len(m.data) = 1
      BY <1>4, <3>1, MessageInts
    <3> QED
      BY <3>2
  <2>2. /\ Place(s, V, m.term, m.index + 1)
        /\ H[<<m.term, m.index + 1>>] = H[<<m.logTerm, m.index>>] \o m.data
    BY <1>4 DEF MessageFits
  <2>3. Claim(H, m.logTerm, m.index, p.data)
    BY <1>4 DEF ManagerFits
  <2>4. Claim(H, m.term, m.index + 1, q.data)
    <3> HIDE DEF p, q
    <3>1. Claim(H, m.term, m.index + 1, p.data \o m.data)
      BY <1>1, <2>1, <2>2, <2>3, ClaimNext
    <3>2. Claim(H, m.term, m.index + 1, p.data)
      <4>1. Len(p.data) <= m.index + 1
        BY <2>3 DEF Claim
      <4> QED
        BY <1>1, <2>1, <4>1, ClaimShorter
    <3> QED
      BY <1>4, <3>1, <3>2
  <2>5. Place(r, W, m.term, m.index + 1) /\ Claim(G, m.term, m.index + 1, q.data)
    <3> HIDE DEF p, q
    <3> QED
      BY <2>1, <2>2, <2>4, ClaimStays
  <2> QED
    BY <1>4, <2>5 DEF ManagerFits
<1>5. CASE /\ m.type = "installSnapshot" /\ p.role = "follower"
           /\ q.index = m.index /\ q.logTerm = m.term /\ q.data = m.data
  <2>1. m.term \in Int /\ m.index \in Int
    BY <1>5, MessageInts
  <2>2. Place(s, V, m.term, m.index) /\ Claim(H, m.term, m.index, m.data)
    BY <1>5 DEF MessageFits
  <2>3. Place(r, W, m.term, m.index) /\ Claim(G, m.term, m.index, m.data)
    BY <2>1, <2>2, ClaimStays
  <2> QED
    BY <1>5, <2>3 DEF ManagerFits
<1> QED
  BY <1>2, <1>3, <1>4, <1>5 DEF LogKept

\* A snapshot shows what its sender, the leader, has.
LEMMA SnapshotFits ==
  ASSUME NEW e, NEW u, NEW s, NEW n \in Managers, NEW r, NEW V, NEW H, NEW W, NEW G,
         Formed(s, e, u), PlacesStay(s, V, H, r, W, G), ManagerFits(s, V, H, n),
         s.of[n].role = "leader", NEW k, NEW x, x.type = "installSnapshot",
         x.term = s.of[n].term, x.index = s.of[n].index, x.data = s.of[n].data
  PROVE  MessageFits(r, W, G, k, x)
<1> DEFINE p == s.of[n]
<1>1. p.term \in Int /\ p.index \in Int
  BY FieldsFormed
<1>2. /\ Place(s, V, p.term, p.index) /\ Claim(H, p.logTerm, p.index, p.data)
      /\ H[<<p.term, p.index>>] = H[<<p.logTerm, p.index>>]
  BY DEF ManagerFits
<1>3. x.term = p.term /\ x.index = p.index /\ x.data = p.data
  OBVIOUS
<1> HIDE DEF p
<1>4. Claim(H, p.term, p.index, p.data)
  BY <1>2 DEF Claim
<1>5. Place(r, W, p.term, p.index) /\ Claim(G, p.term, p.index, p.data)
  BY <1>1, <1>2, <1>4, ClaimStays
<1> QED
  BY <1>3, <1>5 DEF MessageFits

-----------------------------------------------------------------------------
(* A step of one manager keeps the copies                                   *)

\* Manager n has become leader.
Rises(s, n, r) == r.of[n].role = "leader" /\ s.of[n].role # "leader"

\* At the last entry of a new leader H says for its term what it says for the term of the entry.
Successor(H, n, r) ==
  LET q == r.of[n] IN [H EXCEPT ![<<q.term, q.index>>] = H[<<q.logTerm, q.index>>]]

Continues(G, H, q) ==
  /\ G \in Histories /\ G[<<q.term, q.index>>] = H[<<q.logTerm, q.index>>]
  /\ \A term, index \in Int : term # q.term => G[<<term, index>>] = H[<<term, index>>]

LEMMA SuccessorSays ==
  ASSUME NEW e, NEW u, NEW r, NEW n, NEW H, NEW G,
         Formed(r, e, u), n \in Managers, H \in Histories, G = Successor(H, n, r)
  PROVE  Continues(G, H, r.of[n])
<1> DEFINE T == r.of[n].term
           i == r.of[n].index
           L == r.of[n].logTerm
<1>1. T \in Int /\ i \in Int /\ L \in Int
  BY FieldsFormed
<1>2. G = [H EXCEPT ![<<T, i>>] = H[<<L, i>>]]
  BY DEF Successor
<1> HIDE DEF T, i, L
<1>3. H[<<L, i>>] \in Seq(Nat) /\ <<T, i>> \in Int \X Int
  BY <1>1 DEF Histories
<1>4. G \in Histories /\ G[<<T, i>>] = H[<<L, i>>]
  BY <1>2, <1>3 DEF Histories
<1>5. \A term, index \in Int : term # T => G[<<term, index>>] = H[<<term, index>>]
  BY <1>2, <1>3 DEF Histories
<1> QED
  BY <1>4, <1>5 DEF Continues, T, i, L

LEMMA PlacesStayStill ==
  ASSUME NEW e \in Nat, NEW u, NEW s, NEW n \in Managers, NEW m, NEW r, NEW V, NEW W, NEW H,
         Formed(s, e, u), Handles(s, n, m, r, e, u), V \subseteq W, Elected(r, W), Once(r, W),
         r.of[n].term >= s.of[n].term
  PROVE  PlacesStay(s, V, H, r, W, H)
BY PlacesKept DEF PlacesStay

LEMMA PlacesStayRisen ==
  ASSUME NEW e \in Nat, NEW u, NEW s, NEW n \in Managers, NEW m, NEW r, NEW V, NEW W,
         NEW H \in Histories, NEW G,
         Formed(s, e, u), Handles(s, n, m, r, e, u), V \subseteq W, Elected(r, W), Once(r, W),
         r.of[n].term >= s.of[n].term, Rises(s, n, r), G = Successor(H, n, r)
  PROVE  PlacesStay(s, V, H, r, W, G)
<1>1. Formed(r, e, u) /\ r.of[n].role = "leader" /\ s.of[n].role # "leader"
  BY DEF Handles, Rises
<1>2. \A term, index \in Int : term # r.of[n].term => G[<<term, index>>] = H[<<term, index>>]
  <2>1. Continues(G, H, r.of[n])
    BY <1>1, SuccessorSays, Zenon
  <2> QED
    BY <2>1 DEF Continues
<1>3. \A term, index \in Int :
        Place(s, V, term, index) => Place(r, W, term, index) /\ term # r.of[n].term
  BY <1>1, PlacesKept
<1> QED
  BY <1>2, <1>3 DEF PlacesStay

\* The new leader has the last entry of its term.
LEMMA RisenFits ==
  ASSUME NEW e \in Nat, NEW u, NEW s, NEW n \in Managers, NEW m, NEW r, NEW V, NEW W,
         NEW H \in Histories, NEW G,
         Formed(s, e, u), Handles(s, n, m, r, e, u), V \subseteq W, Elected(r, W), Once(r, W),
         Rises(s, n, r), G = Successor(H, n, r),
         PlacesStay(s, V, H, r, W, G), ManagerFits(s, V, H, n)
  PROVE  ManagerFits(r, W, G, n)
<1> DEFINE p == s.of[n]
           q == r.of[n]
<1>1. /\ q.role = "leader" /\ p.role # "leader" /\ RoleKept(p, m, q) /\ LogKept(p, m, q)
      /\ Formed(r, e, u) /\ \A k \in Managers : k # n => r.of[k] = s.of[k]
  BY DEF Handles, Rises
<1>2. Counts(p, m, q)
  BY <1>1 DEF RoleKept
<1>3. SameLog(p, q)
  BY <1>1, <1>2 DEF LogKept, Counts
<1>4. /\ q.term \in Int /\ q.index \in Int /\ q.logTerm \in Int
      /\ p.term \in Int /\ p.index \in Int /\ p.logTerm \in Int
  BY <1>1, FieldsFormed
<1>5. Place(s, V, p.logTerm, p.index) /\ Claim(H, p.logTerm, p.index, p.data)
  BY DEF ManagerFits
<1>6. G[<<q.term, q.index>>] = H[<<q.logTerm, q.index>>]
  <2>1. Continues(G, H, q)
    BY <1>1, SuccessorSays, Zenon
  <2> QED
    BY <2>1 DEF Continues
<1>7. Majority(VotersFor(W, q.term, n))
  BY <1>1, LeaderHasWon
<1> HIDE DEF p, q
<1>8. /\ Place(r, W, q.logTerm, q.index) /\ Claim(G, q.logTerm, q.index, q.data)
      /\ G[<<q.logTerm, q.index>>] = H[<<q.logTerm, q.index>>]
  <2>1. Place(r, W, p.logTerm, p.index) /\ Claim(G, p.logTerm, p.index, p.data)
    BY <1>4, <1>5, ClaimStays
  <2>2. G[<<p.logTerm, p.index>>] = H[<<p.logTerm, p.index>>]
    BY <1>4, <1>5 DEF PlacesStay
  <2> QED
    BY <1>3, <2>1, <2>2 DEF SameLog
<1>9. Place(r, W, q.term, q.index)
  <2>1. Won(r, W, q.term)
    BY <1>1, <1>7 DEF Won, q
  <2>2. ASSUME NEW l \in Managers, r.of[l].role = "leader", r.of[l].term = q.term
        PROVE  q.index <= r.of[l].index
    <3>1. Majority(VotersFor(W, q.term, l))
      BY <1>1, <2>2, LeaderHasWon
    <3>2. l = n
      BY <1>7, <3>1, OneWinner
    <3> QED
      BY <1>4, <3>2 DEF q
  <2> QED
    BY <2>1, <2>2 DEF Place
<1> QED
  BY <1>6, <1>8, <1>9 DEF ManagerFits, q

OthersStay(s, n, r) == \A k \in Managers : k # n => r.of[k] = s.of[k]

LEMMA CopiesMove ==
  ASSUME NEW e, NEW u, NEW s, NEW n, NEW r, NEW V, NEW H, NEW W, NEW G,
         Formed(s, e, u), n \in Managers, OthersStay(s, n, r), MailKept(s, n, r),
         Copies(s, V, H), PlacesStay(s, V, H, r, W, G), ManagerFits(r, W, G, n)
  PROVE  Copies(r, W, G)
<1>1. (\A k \in Managers : k # n => r.of[k] = s.of[k]) /\ MailKept(s, n, r)
  BY DEF OthersStay
<1>2. ASSUME NEW k \in Managers PROVE ManagerFits(r, W, G, k)
  <2>1. CASE k # n
    <3>1. ManagerFits(s, V, H, k) /\ r.of[k] = s.of[k]
      BY <1>1, <2>1 DEF Copies
    <3>2. SameLog(s.of[k], r.of[k])
      BY <3>1 DEF SameLog
    <3> QED
      BY <3>1, <3>2, ManagerStays
  <2> QED
    BY <2>1
<1>3. ASSUME NEW k \in Managers, NEW x \in Of(r.inbox[k]) PROVE MessageFits(r, W, G, k, x)
  <2>1. Sent(s, r, n, k, x) \/ (x \in Of(s.inbox[k]) /\ r.of[k].role = s.of[k].role)
    BY <1>1 DEF MailKept
  <2>2. CASE x \in Of(s.inbox[k]) /\ r.of[k].role = s.of[k].role
    <3>1. MessageFits(s, V, H, k, x) /\ x \in Mail(s.of[k].role, e, u)
      BY <2>2 DEF Copies, Formed
    <3> QED
      BY <2>2, <3>1, MessageStays
  <2>3. CASE /\ x.type = "installSnapshot" /\ s.of[n].role = "leader"
             /\ x.term = s.of[n].term /\ x.index = s.of[n].index /\ x.data = s.of[n].data
    <3>1. ManagerFits(s, V, H, n)
      BY DEF Copies
    <3> QED
      BY <2>3, <3>1, SnapshotFits
  <2>4. CASE x.type \in {"heartbeart", "requestVote", "responseVote"}
    BY <2>4 DEF MessageFits
  <2>5. CASE x.type = "installSnapshot" /\ r.of[k].role = "leader"
    BY <2>5 DEF MessageFits
  <2> QED
    BY <2>1, <2>2, <2>3, <2>4, <2>5 DEF Sent
<1> QED
  BY <1>2, <1>3 DEF Copies

Copied(s, V) == \E H \in Histories : Copies(s, V, H)

LEMMA CopiesKept ==
  ASSUME NEW e \in Nat, NEW u, NEW s, NEW n \in Managers, NEW m, NEW r, NEW V, NEW W, NEW H,
         Formed(s, e, u), Handles(s, n, m, r, e, u), V \subseteq W, Elected(r, W), Once(r, W),
         r.of[n].term >= s.of[n].term, H \in Histories, Copies(s, V, H),
         m.type \in {"installSnapshot", "appendEntry"} => m \in Mail(s.of[n].role, e, u),
         MessageFits(s, V, H, n, m)
  PROVE  Copied(r, W)
<1>1. ManagerFits(s, V, H, n) /\ OthersStay(s, n, r) /\ MailKept(s, n, r)
  BY DEF Copies, Handles, OthersStay
<1>2. CASE Rises(s, n, r)
  <2> DEFINE G == Successor(H, n, r)
  <2>1. G \in Histories
    <3>1. Formed(r, e, u)
      BY DEF Handles
    <3>2. Continues(G, H, r.of[n])
      BY <3>1, SuccessorSays, Zenon
    <3> QED
      BY <3>2 DEF Continues
  <2>2. G = Successor(H, n, r)
    OBVIOUS
  <2> HIDE DEF G
  <2>3. PlacesStay(s, V, H, r, W, G)
    BY <1>2, <2>2, PlacesStayRisen, Zenon
  <2>4. ManagerFits(r, W, G, n)
    BY <1>1, <1>2, <2>2, <2>3, RisenFits, Zenon
  <2> QED
    BY <1>1, <2>1, <2>3, <2>4, CopiesMove DEF Copied
<1>3. CASE ~Rises(s, n, r)
  <2>1. PlacesStay(s, V, H, r, W, H)
    BY PlacesStayStill, Zenon
  <2>2. CASE r.of[n].role # "leader"
    <3>1. ManagerFits(r, W, H, n)
      BY <1>1, <2>1, <2>2, HandlerFits, Zenon
    <3> QED
      BY <1>1, <2>1, <3>1, CopiesMove DEF Copied
  <2>3. CASE r.of[n].role = "leader"
    <3>1. s.of[n].role = "leader"
      BY <1>3, <2>3 DEF Rises
    <3>2. RoleKept(s.of[n], m, r.of[n]) /\ LogKept(s.of[n], m, r.of[n])
      BY DEF Handles
    <3>3. r.of[n].term = s.of[n].term
      BY <2>3, <3>1, <3>2 DEF RoleKept, Counts
    <3>4. SameLog(s.of[n], r.of[n])
      BY <2>3, <3>1, <3>2 DEF LogKept
    <3>5. ManagerFits(r, W, H, n)
      BY <1>1, <2>1, <3>1, <3>3, <3>4, ManagerStays
    <3> QED
      BY <1>1, <2>1, <3>5, CopiesMove DEF Copied
  <2> QED
    BY <2>2, <2>3
<1> QED
  BY <1>2, <1>3

-----------------------------------------------------------------------------
(* The actions                                                              *)

\* What always holds of a state and the votes, and what holds until a candidate goes back.
Held(s, V, e, u) == Formed(s, e, u) /\ V \subseteq Ballots(e) /\ Elected(s, V)
Safe(s, V) == Once(s, V) /\ Copied(s, V)

\* Giving up, and asking for a snapshot again.
LEMMA QuietDoes ==
  ASSUME NEW e \in Nat, NEW u, NEW s, NEW n \in Managers, NEW m, NEW r, NEW V,
         Held(s, V, e, u), Handles(s, n, m, r, e, u), m.type = "none"
  PROVE  /\ Held(r, V, e, u)
         /\ r.of[n].term >= s.of[n].term /\ Safe(s, V) => Safe(r, V)
<1>1. Formed(s, e, u) /\ V \subseteq Ballots(e) /\ Elected(s, V) /\ Formed(r, e, u) /\ V \subseteq V
  BY DEF Held, Handles
<1>2. Elected(r, V)
  BY <1>1, ElectedKept
<1>3. ASSUME r.of[n].term >= s.of[n].term, Safe(s, V) PROVE Safe(r, V)
  <2>1. Once(s, V)
    BY <1>3 DEF Safe
  <2>2. Once(r, V)
    BY <1>1, <1>3, <2>1, OnceKept
  <2>3. PICK H \in Histories : Copies(s, V, H)
    BY <1>3 DEF Safe, Copied
  <2>4. MessageFits(s, V, H, n, m)
    BY DEF MessageFits
  <2>5. Copied(r, V)
    BY <1>1, <1>2, <1>3, <2>2, <2>3, <2>4, CopiesKept
  <2> QED
    BY <2>2, <2>5 DEF Safe
<1> QED
  BY <1>1, <1>2, <1>3 DEF Held

\* The votes after n has handled m.
Cast(V, n, m, r) ==
  IF m.type = "requestVote" /\ r.of[n].lastVoteFor = m.id /\ r.of[n].lastVoteTerm = m.term
    THEN V \cup {<<n, m.term, m.id>>} ELSE V

LEMMA CastDoes ==
  ASSUME NEW e, NEW u, NEW role, NEW n \in Managers, NEW m, NEW r, NEW V, NEW W,
         V \subseteq Ballots(e), m \in Mail(role, e, u), W = Cast(V, n, m, r)
  PROVE  /\ V \subseteq W /\ W \subseteq Ballots(e)
         /\ \/ W = V
            \/ /\ W = V \cup {<<n, m.term, m.id>>} /\ m.term \in UpTo(e) /\ m.id \in Managers
               /\ r.of[n].lastVoteFor = m.id /\ r.of[n].lastVoteTerm = m.term
<1>1. CASE m.type = "requestVote" /\ r.of[n].lastVoteFor = m.id /\ r.of[n].lastVoteTerm = m.term
  <2>1. m \in Plain("requestVote", e, u)
    BY <1>1 DEF Mail, Plain, Answers, Entries, Snapshots
  <2>2. m.term \in UpTo(e) /\ m.id \in Managers
    BY <2>1 DEF Plain
  <2>3. W = V \cup {<<n, m.term, m.id>>}
    BY <1>1 DEF Cast
  <2> QED
    BY <1>1, <2>2, <2>3 DEF Ballots
<1>2. CASE ~(m.type = "requestVote" /\ r.of[n].lastVoteFor = m.id /\ r.of[n].lastVoteTerm = m.term)
  BY <1>2 DEF Cast
<1> QED
  BY <1>1, <1>2

\* What is known of a message m when n has taken it.
Taken(s, p, n, m, V, e, u) ==
  /\ Held(p, V, e, u) /\ p.of = s.of /\ m \in Mail(s.of[n].role, e, u)
  /\ m.type = "responseVote" => m.voteGranted = FALSE \/ <<m.voter, m.voteForTerm, n>> \in V
  /\ Once(s, V) => Once(p, V)
  /\ \A H : Copies(s, V, H) => Copies(p, V, H) /\ MessageFits(p, V, H, n, m)

LEMMA PoppedKeeps ==
  ASSUME NEW e, NEW u, NEW s, NEW n \in Managers, NEW p, NEW m, NEW V,
         Held(s, V, e, u), s.inbox[n] # None, p = Popped(s, n), m = Head(s.inbox[n])
  PROVE  Taken(s, p, n, m, V, e, u)
<1>1. Formed(s, e, u) /\ V \subseteq Ballots(e) /\ Elected(s, V)
  BY DEF Held
<1>2. /\ Formed(p, e, u) /\ p.of = s.of
      /\ m \in Of(s.inbox[n]) /\ m \in Mail(s.of[n].role, e, u)
      /\ \A k \in Managers : Of(p.inbox[k]) \subseteq Of(s.inbox[k])
  <2>1. Formed(p, e, u)
    BY <1>1, PoppedDoes
  <2> QED
    BY <1>1, <2>1, PoppedDoes
<1>3. Elected(p, V)
  <2>1. Remembered(p, V) /\ Counted(p, V)
    BY <1>1, <1>2 DEF Elected, Remembered, Counted
  <2>2. Backed(p, V)
    BY <1>1, <1>2 DEF Elected, Backed
  <2> QED
    BY <2>1, <2>2 DEF Elected
<1>4. m.type = "responseVote" => m.voteGranted = FALSE \/ <<m.voter, m.voteForTerm, n>> \in V
  BY <1>1, <1>2 DEF Elected, Backed
<1>5. Once(s, V) => Once(p, V)
  BY <1>2 DEF Once
<1>6. ASSUME NEW H, Copies(s, V, H) PROVE Copies(p, V, H) /\ MessageFits(p, V, H, n, m)
  <2>1. \A term, index : Place(s, V, term, index) <=> Place(p, V, term, index)
    BY <1>2 DEF Place, Won
  <2>2. \A k \in Managers : ManagerFits(s, V, H, k) => ManagerFits(p, V, H, k)
    BY <1>2, <2>1 DEF ManagerFits
  <2>3. \A k, x : MessageFits(s, V, H, k, x) => MessageFits(p, V, H, k, x)
    BY <1>2, <2>1 DEF MessageFits
  <2> QED
    BY <1>2, <1>6, <2>2, <2>3 DEF Copies
<1> QED
  BY <1>1, <1>2, <1>3, <1>4, <1>5, <1>6 DEF Held, Taken

LEMMA ReceiveDoes ==
  ASSUME NEW e \in Nat, NEW u \in Nat, NEW s, NEW n \in Managers, NEW p, NEW m, NEW r, NEW V, NEW W,
         Held(s, V, e, u), s.inbox[n] # None, p = Popped(s, n), m = Head(s.inbox[n]),
         r = Handled(p, n, m), W = Cast(V, n, m, r)
  PROVE  /\ Held(r, W, e, u)
         /\ r.of[n].term >= s.of[n].term /\ Safe(s, V) => Safe(r, W)
<1>1. /\ Held(p, V, e, u) /\ p.of = s.of /\ m \in Mail(p.of[n].role, e, u)
      /\ m.type = "responseVote" => m.voteGranted = FALSE \/ <<m.voter, m.voteForTerm, n>> \in V
      /\ Once(s, V) => Once(p, V)
      /\ \A H : Copies(s, V, H) => Copies(p, V, H) /\ MessageFits(p, V, H, n, m)
  <2>1. Taken(s, p, n, m, V, e, u)
    BY PoppedKeeps, Zenon
  <2> QED
    BY <2>1 DEF Taken
<1>2. Formed(p, e, u) /\ V \subseteq Ballots(e) /\ Elected(p, V)
  BY <1>1 DEF Held
<1>3. Handles(p, n, m, r, e, u) /\ Formed(r, e, u)
  <2>1. Handles(p, n, m, r, e, u)
    BY <1>1, <1>2, HandledDoes
  <2> QED
    BY <2>1 DEF Handles
<1>4. /\ V \subseteq W /\ W \subseteq Ballots(e)
      /\ \/ W = V
         \/ /\ W = V \cup {<<n, m.term, m.id>>} /\ m.term \in UpTo(e) /\ m.id \in Managers
            /\ r.of[n].lastVoteFor = m.id /\ r.of[n].lastVoteTerm = m.term
  BY <1>1, <1>2, CastDoes
<1>5. Elected(r, W)
  <2>1. m.type = "requestVote" /\ r.of[n].lastVoteFor = m.id /\ r.of[n].lastVoteTerm = m.term
          => <<n, m.term, m.id>> \in W
    BY DEF Cast
  <2> QED
    BY <1>1, <1>2, <1>3, <1>4, <2>1, ElectedKept
<1>6. ASSUME r.of[n].term >= s.of[n].term, Safe(s, V) PROVE Safe(r, W)
  <2>1. Once(p, V) /\ r.of[n].term >= p.of[n].term
    BY <1>1, <1>6 DEF Safe
  <2>2. Once(r, W)
    BY <1>2, <1>3, <1>4, <2>1, OnceKept
  <2>3. PICK H \in Histories : Copies(p, V, H) /\ MessageFits(p, V, H, n, m)
    BY <1>1, <1>6 DEF Safe, Copied
  <2>4. Copied(r, W)
    BY <1>1, <1>2, <1>3, <1>4, <1>5, <2>1, <2>2, <2>3, CopiesKept
  <2> QED
    BY <2>2, <2>4 DEF Safe
<1> QED
  BY <1>3, <1>4, <1>5, <1>6 DEF Held

LEMMA LoseOwnHeartbeatDoes ==
  ASSUME NEW e \in Nat, NEW u, NEW s, NEW n \in Managers, NEW r, NEW V,
         Held(s, V, e, u), r = LeaveOffice(s, n, s.of[n].term)
  PROVE  Held(r, V, e, u) /\ (Safe(s, V) => Safe(r, V))
<1> DEFINE m == [type |-> "none"]
<1>1. Formed(s, e, u) /\ s.of[n].term \in UpTo(e)
  BY DEF Held, Formed, States, Processes
<1>2. Handles(s, n, m, r, e, u)
  BY <1>1, LeaveOfficeDoes
<1>3. r.of[n].term = s.of[n].term /\ s.of[n].term \in Int
  <2> DEFINE c == ChangeRole(s, n, "follower", s.of[n].term)
  <2>1. c = ChangeRole(s, n, "follower", s.of[n].term) /\ "follower" \in Roles
    BY DEF Roles
  <2>2. r = With(c, n, Freshman(c.of[n]))
    BY DEF LeaveOffice, With, Freshman
  <2> HIDE DEF c
  <2>3. Formed(c, e, u)
    BY <1>1, <2>1, ChangeRoleKeeps
  <2>4. c.of[n].term = s.of[n].term
    BY <1>1, <2>1, <2>3, ChangeRoleKeeps
  <2>5. Freshman(c.of[n]) \in Processes(e, u) /\ Stays(c.of[n], Freshman(c.of[n]))
    BY <2>3, FreshmanStays DEF Formed, States
  <2>6. r.of[n] = Freshman(c.of[n])
    <3>1. Formed(r, e, u)
      BY <2>2, <2>3, <2>5, StaysDoes
    <3> QED
      BY <2>2, <2>3, <2>5, <3>1, StaysDoes
  <2>7. r.of[n].term = s.of[n].term
    BY <2>4, <2>5, <2>6 DEF Stays
  <2> QED
    BY <1>1, <2>7, FieldsFormed
<1>4. m.type = "none" /\ r.of[n].term >= s.of[n].term
  BY <1>3
<1> HIDE DEF m
<1> QED
  BY <1>2, <1>4, QuietDoes

LEMMA HeartbeatDoes ==
  ASSUME NEW e \in Nat, NEW u, NEW s, NEW n \in Managers, NEW r, NEW V,
         Held(s, V, e, u), s.of[n].role = "leader", r = SendHeartbeat(s, n)
  PROVE  Held(r, V, e, u) /\ (Safe(s, V) => Safe(r, V))
<1> DEFINE m == [type |-> "none"]
<1>1. Formed(s, e, u)
  BY DEF Held
<1>2. Formed(r, e, u) /\ r.of = s.of
  BY <1>1, SendHeartbeatDoes
<1>3. \A k \in Managers : \A x \in Of(r.inbox[k]) : x \in Of(s.inbox[k]) \/ x.type = "heartbeart"
  BY <1>1, <1>2, SendHeartbeatDoes
<1>4. MailKept(s, n, r)
  BY <1>2, <1>3 DEF MailKept, Sent
<1>5. Handles(s, n, m, r, e, u)
  BY <1>2, <1>4 DEF Handles, VotesKept, RoleKept, LogKept, SameLog
<1>6. r.of[n].term = s.of[n].term /\ s.of[n].term \in Int
  BY <1>1, <1>2, FieldsFormed
<1>7. m.type = "none" /\ r.of[n].term >= s.of[n].term
  BY <1>6
<1> HIDE DEF m
<1> QED
  BY <1>5, <1>7, QuietDoes

LEMMA SnapshotTimeoutDoes ==
  ASSUME NEW e \in Nat, NEW u, NEW s, NEW n \in Managers, NEW r, NEW V,
         Held(s, V, e, u), r = InstallSnapshotOver(s, n)
  PROVE  Held(r, V, e, u) /\ (Safe(s, V) => Safe(r, V))
<1> DEFINE m == [type |-> "none"]
<1>1. Formed(s, e, u) /\ Carried(s, s)
  BY DEF Held, Carried
<1>2. Formed(r, e, u)
  BY <1>1, InstallSnapshotDoes
<1>3. /\ MailKept(s, n, r) /\ Stays(s.of[n], r.of[n])
      /\ \A k \in Managers : k # n => r.of[k] = s.of[k]
  <2>1. MailKept(s, n, r)
    BY <1>1, InstallSnapshotDoes
  <2> QED
    BY <1>1, <1>2, <2>1, InstallSnapshotDoes
<1>4. RoleKept(s.of[n], m, r.of[n])
  <2>1. s.of[n].role = r.of[n].role /\ r.of[n].term = s.of[n].term /\ r.of[n].voters = s.of[n].voters
    BY <1>3 DEF Stays
  <2>2. s.of[n].role \in Roles
    BY <1>1, FieldsFormed
  <2>3. CASE s.of[n].role = "candidate"
    BY <2>1, <2>3 DEF RoleKept, Counts
  <2>4. CASE s.of[n].role # "candidate"
    BY <2>1, <2>2, <2>4 DEF RoleKept, Roles
  <2> QED
    BY <2>3, <2>4
<1>5. Handles(s, n, m, r, e, u)
  BY <1>2, <1>3, <1>4 DEF Handles, VotesKept, LogKept, SameLog, Stays
<1>6. r.of[n].term = s.of[n].term /\ s.of[n].term \in Int
  BY <1>1, <1>3, FieldsFormed DEF Stays
<1>7. m.type = "none" /\ r.of[n].term >= s.of[n].term
  BY <1>6
<1> HIDE DEF m
<1> QED
  BY <1>5, <1>7, QuietDoes

\* A candidature of n, as a follower or as a candidate.
Standing(p, q) ==
  /\ q.role = "candidate" /\ q.term = p.term + 1 /\ q.voters = {} /\ SameLog(p, q)
  /\ q.lastVoteFor = NoOne /\ q.lastVoteTerm = p.lastVoteTerm

LEMMA RunAsCandidateDoes ==
  ASSUME NEW e, NEW f, NEW u, NEW s, NEW t, NEW n, NEW r, e \in Nat, f = e + 1, u \in Nat,
         Formed(t, e, u), Carried(s, t), n \in Managers, t.of[n].role = "candidate",
         r = RunAsCandidate(t, n)
  PROVE  /\ Formed(r, f, u) /\ MailKept(s, n, r) /\ Standing(t.of[n], r.of[n])
         /\ OthersStay(t, n, r)
<1> DEFINE p == t.of[n]
           q == [p EXCEPT !.term = p.term + 1, !.lastVoteFor = NoOne, !.voters = {}, !.leaderId = NoOne]
           on == With(t, n, q)
           m == Message(on, n, "requestVote")
           half == PublishOn(on, "follower", m)
<1>1. Formed(t, f, u) /\ p \in Processes(e, u)
  <2>1. Formed(t, f, u)
    BY FormedGrows
  <2> QED
    BY <2>1 DEF Formed, States
<1>2. q \in Processes(f, u) /\ q.role = t.of[n].role /\ Standing(p, q)
  <2>1. \A x \in UpTo(e) : x \in UpTo(f) /\ x + 1 \in UpTo(f)
    BY DEF UpTo, DEFAULT_DATA
  <2> QED
    BY <1>1, <2>1 DEF Processes, Standing, SameLog
<1>3. on = With(t, n, q)
  OBVIOUS
<1>4. r = PublishOn(half, "candidate", m)
  BY DEF RunAsCandidate, With
<1> HIDE DEF q, on
<1>5. /\ Formed(on, f, u) /\ on.inbox = t.inbox /\ on.of[n] = q
      /\ \A k \in Managers : k # n => on.of[k] = t.of[k]
  BY <1>1, <1>2, <1>3, UpdateDoes
<1>6. m \in Plain("requestVote", f, u) /\ m.type = "requestVote"
  BY <1>5, MessageFormed DEF Message
<1>7. /\ m \in Mail("follower", f, u) /\ m \in Mail("candidate", f, u)
      /\ "follower" \in Roles /\ "candidate" \in Roles
  BY <1>6 DEF Mail, Roles
<1>8. half = PublishOn(on, "follower", m)
  OBVIOUS
<1> HIDE DEF m, half
<1>9. Formed(half, f, u) /\ half.of = on.of
  BY <1>5, <1>7, <1>8, PublishOnDoes
<1>10. Formed(r, f, u) /\ r.of = on.of
  BY <1>4, <1>7, <1>9, PublishOnDoes
<1>11. \A k \in Managers : \A y \in Of(r.inbox[k]) : y \in Of(t.inbox[k]) \/ y = m
  <2>1. \A k \in Managers : \A y \in Of(half.inbox[k]) : y \in Of(on.inbox[k]) \/ y = m
    BY <1>5, <1>7, <1>8, <1>9, PublishOnDoes
  <2>2. \A k \in Managers : \A y \in Of(r.inbox[k]) : y \in Of(half.inbox[k]) \/ y = m
    BY <1>4, <1>7, <1>9, <1>10, PublishOnDoes
  <2> QED
    BY <1>5, <2>1, <2>2
<1>12. MailKept(s, n, r)
  <2> SUFFICES ASSUME NEW k \in Managers, NEW x \in Of(r.inbox[k]), x # m
               PROVE  x \in Of(s.inbox[k]) /\ r.of[k].role = s.of[k].role
    BY <1>6 DEF MailKept, Sent
  <2>1. x \in Of(s.inbox[k]) /\ t.of[k].role = s.of[k].role
    BY <1>11 DEF Carried
  <2>2. r.of[k].role = t.of[k].role
    BY <1>2, <1>5, <1>10
  <2> QED
    BY <2>1, <2>2
<1> QED
  BY <1>2, <1>5, <1>10, <1>12 DEF OthersStay

\* Before and after a candidature: n has stood in the next term.
Stood(s, n, r) ==
  /\ OthersStay(s, n, r) /\ MailKept(s, n, r) /\ Standing(s.of[n], r.of[n])
  /\ s.of[n].role \in {"follower", "candidate"}

LEMMA StoodKeepsElected ==
  ASSUME NEW e, NEW f, NEW u, NEW s, NEW n, NEW r, NEW V, n \in Managers,
         Formed(s, e, u), Elected(s, V), Stood(s, n, r)
  PROVE  Elected(r, V)
<1>1. OthersStay(s, n, r) /\ MailKept(s, n, r) /\ Standing(s.of[n], r.of[n])
  BY DEF Stood
<1>2. Remembered(r, V)
  BY <1>1 DEF Elected, Remembered, OthersStay, Standing
<1>3. Backed(r, V)
  <2> SUFFICES ASSUME NEW k \in Managers, NEW x \in Of(r.inbox[k]),
                      x.type = "responseVote", x.voteGranted # FALSE
               PROVE  <<x.voter, x.voteForTerm, k>> \in V
    BY DEF Backed
  <2>1. CASE x \in Of(s.inbox[k])
    BY <2>1 DEF Elected, Backed
  <2>2. CASE Sent(s, r, n, k, x)
    <3>1. k = r.of[n].lastVoteFor /\ r.of[n].lastVoteFor = NoOne
      BY <1>1, <2>2 DEF Sent, Standing
    <3> QED
      BY <3>1, ElectionAssumption
  <2> QED
    BY <1>1, <2>1, <2>2 DEF MailKept
<1>4. Counted(r, V)
  <2>1. s.of[n].term \in UpTo(e)
    BY DEF Formed, States, Processes
  <2>2. s.of[n].term + 1 >= 0
    BY <2>1 DEF UpTo, DEFAULT_DATA
  <2>3. r.of[n].term >= 0 /\ r.of[n].voters = {} /\ r.of[n].role # "leader"
    BY <1>1, <2>2 DEF Standing
  <2> SUFFICES ASSUME NEW k \in Managers, r.of[k].role \in {"candidate", "leader"}
               PROVE  /\ r.of[k].term >= 0
                      /\ \A v \in r.of[k].voters : <<v, r.of[k].term, k>> \in V
                      /\ r.of[k].role = "leader" => Majority(r.of[k].voters)
    BY DEF Counted
  <2>4. CASE k = n
    BY <2>3, <2>4
  <2>5. CASE k # n
    BY <1>1, <2>5 DEF Elected, Counted, OthersStay
  <2> QED
    BY <2>4, <2>5
<1> QED
  BY <1>2, <1>3, <1>4 DEF Elected

LEMMA StoodKeepsOnce ==
  ASSUME NEW e, NEW u, NEW s, NEW n, NEW r, NEW V, n \in Managers,
         Formed(s, e, u), V \subseteq Ballots(e), Once(s, V), Stood(s, n, r)
  PROVE  Once(r, V)
<1> DEFINE p == s.of[n]
           q == r.of[n]
<1>1. /\ q.term = p.term + 1 /\ q.lastVoteFor = NoOne /\ q.lastVoteTerm = p.lastVoteTerm
      /\ \A k \in Managers : k # n => r.of[k] = s.of[k]
  BY DEF Stood, Standing, OthersStay
<1>2. p.term \in Int /\ p.lastVoteTerm \in Int /\ p.lastVoteTerm <= p.term
  <2>1. p.term \in UpTo(e) /\ p.lastVoteTerm \in UpTo(e)
    BY DEF Formed, States, Processes
  <2>2. p.lastVoteTerm <= p.term
    BY DEF Once
  <2> HIDE DEF p
  <2> QED
    BY <2>1, <2>2 DEF UpTo, DEFAULT_DATA
<1> HIDE DEF p, q
<1>3. q.lastVoteTerm <= q.term /\ q.term > q.lastVoteTerm
  BY <1>1, <1>2
<1>4. \A v \in V : VotedUpTo(r.of[v[1]], v)
  <2> TAKE v \in V
  <2>1. v[1] \in Managers /\ VotedUpTo(s.of[v[1]], v)
    BY DEF Once, Ballots
  <2>2. CASE v[1] = n
    BY <1>1, <1>3, <2>1, <2>2 DEF VotedUpTo, p, q
  <2>3. CASE v[1] # n
    BY <1>1, <2>1, <2>3
  <2> QED
    BY <2>2, <2>3
<1>5. \A k \in Managers : r.of[k].lastVoteTerm <= r.of[k].term
  <2> TAKE k \in Managers
  <2>1. CASE k = n
    BY <1>3, <2>1 DEF q
  <2>2. CASE k # n
    BY <1>1, <2>2 DEF Once
  <2> QED
    BY <2>1, <2>2
<1> QED
  BY <1>4, <1>5 DEF Once

LEMMA StoodKeepsCopies ==
  ASSUME NEW e, NEW u, NEW s, NEW n, NEW r, NEW V, NEW H, n \in Managers,
         Formed(s, e, u), Copies(s, V, H), Stood(s, n, r)
  PROVE  Copies(r, V, H)
<1> DEFINE p == s.of[n]
           q == r.of[n]
<1>1. /\ q.role = "candidate" /\ q.term = p.term + 1 /\ SameLog(p, q) /\ p.role # "leader"
      /\ OthersStay(s, n, r) /\ MailKept(s, n, r)
  BY DEF Stood, Standing
<1>2. p.term \in Int
  BY FieldsFormed
<1> HIDE DEF p, q
<1>3. PlacesStay(s, V, H, r, V, H)
  <2> SUFFICES ASSUME NEW term \in Int, NEW index \in Int, Place(s, V, term, index)
               PROVE  Place(r, V, term, index)
    BY DEF PlacesStay
  <2>1. ASSUME term # DEFAULT_DATA PROVE Won(r, V, term)
    <3>1. PICK c \in Managers :
            /\ Majority(VotersFor(V, term, c))
            /\ s.of[c].term > term \/ (s.of[c].term = term /\ s.of[c].role # "candidate")
      BY <2>1 DEF Place, Won
    <3>2. CASE c # n
      BY <1>1, <3>1, <3>2 DEF Won, OthersStay
    <3>3. CASE c = n
      <4>1. q.term > term
        BY <1>1, <1>2, <3>1, <3>3 DEF p
      <4> QED
        BY <3>1, <3>3, <4>1 DEF Won, q
    <3> QED
      BY <3>2, <3>3
  <2>2. ASSUME NEW l \in Managers, r.of[l].role = "leader", r.of[l].term = term
        PROVE  index <= r.of[l].index
    <3>1. l # n
      BY <1>1, <2>2 DEF q
    <3> QED
      BY <1>1, <2>2, <3>1 DEF OthersStay, Place
  <2> QED
    BY <2>1, <2>2 DEF Place
<1>4. ManagerFits(r, V, H, n)
  <2>1. ManagerFits(s, V, H, n) /\ SameLog(s.of[n], r.of[n]) /\ r.of[n].role # "leader"
    BY <1>1 DEF Copies, p, q
  <2> QED
    BY <1>3, <2>1, ManagerStays
<1> QED
  BY <1>1, <1>3, <1>4, CopiesMove

LEMMA StoodDoes ==
  ASSUME NEW e, NEW f, NEW u, NEW s, NEW n, NEW r, NEW V, e \in Nat, f = e + 1, u \in Nat,
         n \in Managers, Held(s, V, e, u), Formed(r, f, u), Stood(s, n, r)
  PROVE  Held(r, V, f, u) /\ (Safe(s, V) => Safe(r, V))
<1>1. Formed(s, e, u) /\ V \subseteq Ballots(e) /\ Elected(s, V)
  BY DEF Held
<1>2. Elected(r, V)
  BY <1>1, StoodKeepsElected
<1>3. V \subseteq Ballots(f)
  <2>1. UpTo(e) \subseteq UpTo(f)
    BY DEF UpTo
  <2> QED
    BY <1>1, <2>1 DEF Ballots
<1>4. ASSUME Safe(s, V) PROVE Safe(r, V)
  <2>1. Once(r, V)
    BY <1>1, <1>4, StoodKeepsOnce DEF Safe
  <2>2. PICK H \in Histories : Copies(s, V, H)
    BY <1>4 DEF Safe, Copied
  <2>3. Copies(r, V, H)
    BY <1>1, <2>2, StoodKeepsCopies
  <2> QED
    BY <2>1, <2>3 DEF Safe, Copied
<1> QED
  BY <1>2, <1>3, <1>4 DEF Held

LEMMA StandDoes ==
  ASSUME NEW e, NEW f, NEW u, NEW s, NEW t, NEW n, NEW r, NEW V, e \in Nat, f = e + 1, u \in Nat,
         n \in Managers, Held(s, V, e, u), r = RunAsCandidate(t, n),
         \/ s.of[n].role = "candidate" /\ t = s
         \/ s.of[n].role = "follower" /\ t = ChangeRole(s, n, "candidate", s.of[n].term)
  PROVE  Held(r, V, f, u) /\ (Safe(s, V) => Safe(r, V))
<1>1. Formed(s, e, u)
  BY DEF Held
<1>2. /\ Formed(t, e, u) /\ Carried(s, t) /\ OthersStay(s, n, t) /\ t.of[n].role = "candidate"
      /\ t.of[n].term = s.of[n].term /\ Keeps(s.of[n], t.of[n])
      /\ s.of[n].role \in {"follower", "candidate"}
  <2>1. CASE s.of[n].role = "candidate" /\ t = s
    BY <1>1, <2>1 DEF Carried, OthersStay, Keeps, SameLog
  <2>2. CASE s.of[n].role = "follower" /\ t = ChangeRole(s, n, "candidate", s.of[n].term)
    <3>1. s.of[n].term \in UpTo(e) /\ "candidate" \in Roles
      BY <1>1 DEF Formed, States, Processes, Roles
    <3>2. Formed(t, e, u)
      BY <1>1, <2>2, <3>1, ChangeRoleKeeps
    <3>3. /\ Carried(s, t) /\ \A k \in Managers : k # n => t.of[k] = s.of[k] /\ t.inbox[k] = s.inbox[k]
          /\ t.of[n].role = "candidate" /\ t.of[n].term = s.of[n].term /\ Keeps(s.of[n], t.of[n])
      BY <1>1, <2>2, <3>1, <3>2, ChangeRoleKeeps
    <3> QED
      BY <2>2, <3>2, <3>3 DEF OthersStay
  <2> QED
    BY <2>1, <2>2
<1>3. Formed(r, f, u)
  BY <1>2, RunAsCandidateDoes
<1>4. MailKept(s, n, r) /\ Standing(t.of[n], r.of[n]) /\ OthersStay(t, n, r)
  BY <1>2, RunAsCandidateDoes
<1>5. Stood(s, n, r)
  BY <1>2, <1>4 DEF Stood, OthersStay, Standing, Keeps, SameLog
<1> QED
  BY <1>3, <1>5, StoodDoes

\* A change x that the leader n makes: its own next entry, and what it sends to the followers.
Changed(p, x) ==
  [p EXCEPT !.index = p.index + 1, !.logTerm = p.term, !.data = Append(p.data, x)]
Entry(s, n, x) == [Message(s, n, "appendEntry") EXCEPT !.data = <<x>>]
Publishes(s, n, x) == With(PublishOn(s, "follower", Entry(s, n, x)), n, Changed(s.of[n], x))

\* What a change does to the state.
Updated(s, n, x, r) ==
  /\ OthersStay(s, n, r) /\ r.of[n] = Changed(s.of[n], x)
  /\ \A k \in Managers : \A y \in Of(r.inbox[k]) : y \in Of(s.inbox[k]) \/ y = Entry(s, n, x)

LEMMA EntryIs ==
  ASSUME NEW e, NEW u, NEW s, NEW n, NEW x, NEW m, Formed(s, e, u), n \in Managers, m = Entry(s, n, x)
  PROVE  /\ m.type = "appendEntry" /\ m.id = n /\ m.term = s.of[n].term /\ m.index = s.of[n].index
         /\ m.logTerm = s.of[n].logTerm /\ m.data = <<x>>
BY DEF Entry, Message

LEMMA OneAdded ==
  ASSUME NEW data \in Seq(Nat), NEW x \in Nat
  PROVE  /\ Append(data, x) \in Seq(Nat) /\ Append(data, x) = data \o <<x>>
         /\ <<x>> \in Seq(Nat) /\ Len(<<x>>) = 1
OBVIOUS

Extends(p, x, q) ==
  /\ q.role = p.role /\ q.term = p.term /\ q.voters = p.voters
  /\ q.lastVoteTerm = p.lastVoteTerm /\ q.lastVoteFor = p.lastVoteFor
  /\ q.index = p.index + 1 /\ q.logTerm = p.term /\ q.data = p.data \o <<x>>

LEMMA ChangedIs ==
  ASSUME NEW e, NEW u, NEW p, NEW x, NEW q, p \in Processes(e, u), x \in Nat, q = Changed(p, x)
  PROVE  Extends(p, x, q)
<1>1. p.data \in Seq(Nat)
  BY DEF Processes
<1>2. Append(p.data, x) = p.data \o <<x>>
  BY <1>1, OneAdded
<1> QED
  BY <1>2 DEF Processes, Changed, Extends

LEMMA ChangedFormed ==
  ASSUME NEW e, NEW u, NEW p, NEW x, NEW q, u \in Nat, p \in Processes(e, u),
         x \in Nat, q = Changed(p, x)
  PROVE  q \in Processes(e, u + 1)
<1>1. UpTo(u) \subseteq UpTo(u + 1) /\ \A i \in UpTo(u) : i + 1 \in UpTo(u + 1)
  BY DEF UpTo, DEFAULT_DATA
<1>2. p.data \in Seq(Nat) /\ p.index \in UpTo(u)
  BY DEF Processes
<1>3. Append(p.data, x) \in Seq(Nat)
  BY <1>2, OneAdded
<1> QED
  BY <1>1, <1>2, <1>3 DEF Processes, Changed

LEMMA PublishesDoes ==
  ASSUME NEW e, NEW u, NEW v, NEW s, NEW n, NEW x, NEW r, e \in Nat, u \in Nat, v = u + 1,
         Formed(s, e, u), n \in Managers, x \in Nat, r = Publishes(s, n, x)
  PROVE  Formed(r, e, v) /\ Updated(s, n, x, r)
<1> DEFINE m == Entry(s, n, x)
           t == PublishOn(s, "follower", m)
           q == Changed(s.of[n], x)
<1>1. Formed(s, e, v)
  BY FormedGrows
<1>2. s.of[n] \in Processes(e, u) /\ s.of[n].index \in UpTo(u)
  BY DEF Formed, States, Processes
<1>3. m \in Mail("follower", e, v) /\ "follower" \in Roles
  <2>1. UpTo(v - 1) = UpTo(u)
    BY DEF UpTo
  <2>2. <<x>> \in Seq(Nat) /\ Len(<<x>>) = 1
    BY OneAdded
  <2>3. m \in Entries(e, v)
    BY <1>2, <2>1, <2>2 DEF Entry, Message, Entries, Processes
  <2> QED
    BY <2>3 DEF Mail, Roles
<1>4. q \in Processes(e, v) /\ q.role = s.of[n].role
  <2>1. q = Changed(s.of[n], x) /\ s.of[n] \in Processes(e, u)
    BY <1>2
  <2> HIDE DEF q
  <2>2. q \in Processes(e, u + 1)
    BY <2>1, ChangedFormed
  <2>3. Extends(s.of[n], x, q)
    BY <1>2, <2>1, ChangedIs, Zenon
  <2> QED
    BY <2>2, <2>3 DEF Extends
<1>5. t = PublishOn(s, "follower", m) /\ r = With(t, n, q)
  BY DEF Publishes
<1> HIDE DEF m, t, q
<1>6. Formed(t, e, v) /\ t.of = s.of
  BY <1>1, <1>3, <1>5, PublishOnDoes
<1>7. \A k \in Managers : \A y \in Of(t.inbox[k]) : y \in Of(s.inbox[k]) \/ y = m
  BY <1>1, <1>3, <1>5, <1>6, PublishOnDoes
<1>8. Formed(r, e, v)
  BY <1>4, <1>5, <1>6, UpdateDoes
<1>9. /\ r.inbox = t.inbox /\ r.of[n] = q
      /\ \A k \in Managers : k # n => r.of[k] = t.of[k]
  BY <1>4, <1>5, <1>6, <1>8, UpdateDoes
<1> QED
  BY <1>6, <1>7, <1>8, <1>9 DEF Updated, OthersStay, m, q

LEMMA UpdatedKeepsVotes ==
  ASSUME NEW e, NEW u, NEW s, NEW n, NEW x, NEW r, NEW V, u \in Nat, x \in Nat,
         Formed(s, e, u), n \in Managers, Updated(s, n, x, r)
  PROVE  (Elected(s, V) => Elected(r, V)) /\ (V \subseteq Ballots(e) /\ Once(s, V) => Once(r, V))
<1>1. s.of[n] \in Processes(e, u) /\ s.of[n].index \in UpTo(u)
  BY DEF Formed, States, Processes
<1>2. r.of[n] = Changed(s.of[n], x) /\ OthersStay(s, n, r)
  BY DEF Updated
<1>3. /\ r.of[n].role = s.of[n].role /\ r.of[n].term = s.of[n].term
      /\ r.of[n].voters = s.of[n].voters
      /\ r.of[n].lastVoteTerm = s.of[n].lastVoteTerm /\ r.of[n].lastVoteFor = s.of[n].lastVoteFor
  <2>1. Extends(s.of[n], x, r.of[n])
    BY <1>1, <1>2, ChangedIs, Zenon
  <2> QED
    BY <2>1 DEF Extends
<1>4. \A k \in Managers :
        /\ r.of[k].role = s.of[k].role /\ r.of[k].term = s.of[k].term
        /\ r.of[k].voters = s.of[k].voters
        /\ r.of[k].lastVoteTerm = s.of[k].lastVoteTerm /\ r.of[k].lastVoteFor = s.of[k].lastVoteFor
  BY <1>2, <1>3 DEF OthersStay
<1>5. ASSUME Elected(s, V) PROVE Elected(r, V)
  <2>1. Remembered(r, V) /\ Counted(r, V)
    BY <1>4, <1>5 DEF Elected, Remembered, Counted
  <2>2. Backed(r, V)
    <3> SUFFICES ASSUME NEW k \in Managers, NEW y \in Of(r.inbox[k]), y.type = "responseVote"
                 PROVE  y.voteGranted = FALSE \/ <<y.voter, y.voteForTerm, k>> \in V
      BY DEF Backed
    <3>1. y \in Of(s.inbox[k])
      BY EntryIs DEF Updated
    <3> QED
      BY <1>5, <3>1 DEF Elected, Backed
  <2> QED
    BY <2>1, <2>2 DEF Elected
<1>6. ASSUME Once(s, V), V \subseteq Ballots(e) PROVE Once(r, V)
  <2>1. \A w \in V : w[1] \in Managers
    BY <1>6 DEF Ballots
  <2>2. \A w \in V : VotedUpTo(s.of[w[1]], w) => VotedUpTo(r.of[w[1]], w)
    BY <1>4, <2>1 DEF VotedUpTo
  <2> QED
    BY <1>4, <1>6, <2>2 DEF Once
<1> QED
  BY <1>5, <1>6

\* In the term of the leader the next place gets the data with the change.
NextPlace(H, p, x) == [H EXCEPT ![<<p.term, p.index + 1>>] = H[<<p.logTerm, p.index>>] \o <<x>>]

Prolongs(G, H, p, x) ==
  /\ G \in Histories /\ G[<<p.term, p.index + 1>>] = H[<<p.logTerm, p.index>>] \o <<x>>
  /\ \A term, index \in Int : term # p.term \/ index # p.index + 1 =>
       G[<<term, index>>] = H[<<term, index>>]

LEMMA NextPlaceSays ==
  ASSUME NEW e, NEW u, NEW s, NEW n, NEW x, NEW H, NEW G, Formed(s, e, u), n \in Managers, x \in Nat,
         H \in Histories, G = NextPlace(H, s.of[n], x)
  PROVE  Prolongs(G, H, s.of[n], x)
<1> DEFINE T == s.of[n].term
           i == s.of[n].index
           L == s.of[n].logTerm
           new == H[<<L, i>>] \o <<x>>
<1>1. T \in Int /\ i \in Int /\ L \in Int
  BY FieldsFormed
<1>2. G = [H EXCEPT ![<<T, i + 1>>] = new]
  BY DEF NextPlace
<1> HIDE DEF T, i, L
<1>3. H[<<L, i>>] \in Seq(Nat) /\ <<T, i + 1>> \in Int \X Int
  BY <1>1 DEF Histories
<1>4. new \in Seq(Nat)
  <2>1. <<x>> \in Seq(Nat)
    BY OneAdded
  <2> QED
    BY <1>3, <2>1, ConcatProperties
<1>5. new = H[<<L, i>>] \o <<x>>
  OBVIOUS
<1> HIDE DEF new
<1>6. G \in Histories /\ G[<<T, i + 1>>] = new
  BY <1>2, <1>3, <1>4 DEF Histories
<1>7. \A term, index \in Int : term # T \/ index # i + 1 => G[<<term, index>>] = H[<<term, index>>]
  BY <1>2, <1>3 DEF Histories
<1> QED
  BY <1>5, <1>6, <1>7 DEF Prolongs, T, i, L

LEMMA UpdatedPlacesStay ==
  ASSUME NEW e, NEW u, NEW s, NEW n, NEW x, NEW r, NEW V, NEW H, NEW G, x \in Nat, H \in Histories,
         Formed(s, e, u), n \in Managers, s.of[n].role = "leader", Updated(s, n, x, r),
         G = NextPlace(H, s.of[n], x)
  PROVE  PlacesStay(s, V, H, r, V, G)
<1> DEFINE p == s.of[n]
           q == r.of[n]
<1>1. p \in Processes(e, u) /\ p.term \in Int /\ p.index \in Int
  BY FieldsFormed
<1>2. OthersStay(s, n, r) /\ q = Changed(p, x) /\ p.role = "leader"
  BY DEF Updated
<1>3. q.role = "leader" /\ q.term = p.term /\ q.index = p.index + 1
  <2>1. Extends(p, x, q)
    BY <1>1, <1>2, ChangedIs, Zenon
  <2> QED
    BY <1>2, <2>1 DEF Extends
<1>4. \A term, index \in Int : term # p.term \/ index # p.index + 1 => G[<<term, index>>] = H[<<term, index>>]
  <2>1. Prolongs(G, H, p, x)
    BY NextPlaceSays, Zenon
  <2> QED
    BY <2>1 DEF Prolongs
<1> HIDE DEF p, q
<1> SUFFICES ASSUME NEW term \in Int, NEW index \in Int, Place(s, V, term, index)
             PROVE  Place(r, V, term, index) /\ G[<<term, index>>] = H[<<term, index>>]
  BY DEF PlacesStay
<1>5. term # p.term \/ index # p.index + 1
  <2>1. term = p.term => index <= p.index
    BY <1>2 DEF Place, p
  <2> QED
    BY <1>1, <2>1
<1>6. ASSUME term # DEFAULT_DATA PROVE Won(r, V, term)
  <2>1. PICK c \in Managers :
          /\ Majority(VotersFor(V, term, c))
          /\ s.of[c].term > term \/ (s.of[c].term = term /\ s.of[c].role # "candidate")
    BY <1>6 DEF Place, Won
  <2>2. r.of[c].term = s.of[c].term /\ r.of[c].role = s.of[c].role
    BY <1>2, <1>3 DEF OthersStay, p, q
  <2> QED
    BY <2>1, <2>2 DEF Won
<1>7. ASSUME NEW l \in Managers, r.of[l].role = "leader", r.of[l].term = term
      PROVE  index <= r.of[l].index
  <2>1. CASE l = n
    <3>1. index <= p.index
      BY <1>2, <1>3, <1>7, <2>1 DEF Place, p, q
    <3> QED
      BY <1>1, <1>3, <2>1, <3>1 DEF q
  <2>2. CASE l # n
    BY <1>2, <1>7, <2>2 DEF OthersStay, Place
  <2> QED
    BY <2>1, <2>2
<1> QED
  BY <1>4, <1>5, <1>6, <1>7 DEF Place

\* The leader has the change, and sends it as the entry after its last one.
LEMMA UpdatedLeaderFits ==
  ASSUME NEW e, NEW u, NEW s, NEW n, NEW x, NEW r, NEW V, NEW H, NEW G, x \in Nat, H \in Histories,
         Formed(s, e, u), n \in Managers, s.of[n].role = "leader", Updated(s, n, x, r),
         Elected(s, V), Once(s, V), ManagerFits(s, V, H, n),
         G = NextPlace(H, s.of[n], x), PlacesStay(s, V, H, r, V, G)
  PROVE  /\ ManagerFits(r, V, G, n)
         /\ \A k : MessageFits(r, V, G, k, Entry(s, n, x))
<1> DEFINE p == s.of[n]
           q == r.of[n]
           m == Entry(s, n, x)
<1>1. /\ p \in Processes(e, u) /\ p.term \in Int /\ p.logTerm \in Int /\ p.index \in Int
      /\ p.data \in Seq(Nat) /\ p.index + 1 \in Int
  <2>1. p \in Processes(e, u) /\ p.term \in Int /\ p.logTerm \in Int /\ p.index \in Int /\ p.data \in Seq(Nat)
    BY FieldsFormed
  <2> HIDE DEF p
  <2> QED
    BY <2>1
<1>2. OthersStay(s, n, r) /\ q = Changed(p, x) /\ p.role = "leader"
  BY DEF Updated
<1>3. /\ q.role = "leader" /\ q.term = p.term /\ q.index = p.index + 1 /\ q.logTerm = p.term
      /\ q.data = p.data \o <<x>>
  <2>1. Extends(p, x, q)
    BY <1>1, <1>2, ChangedIs, Zenon
  <2> QED
    BY <1>2, <2>1 DEF Extends
<1>4. G[<<p.term, p.index + 1>>] = H[<<p.logTerm, p.index>>] \o <<x>>
  <2>1. Prolongs(G, H, p, x)
    BY NextPlaceSays, Zenon
  <2> QED
    BY <2>1 DEF Prolongs
<1>5. Place(s, V, p.logTerm, p.index) /\ Claim(H, p.logTerm, p.index, p.data) /\ Place(s, V, p.term, p.index)
  BY <1>2 DEF ManagerFits
<1>6. Majority(VotersFor(V, p.term, n))
  BY LeaderHasWon
<1>7. /\ m.type = "appendEntry" /\ m.term = p.term /\ m.index = p.index /\ m.logTerm = p.logTerm
      /\ m.data = <<x>>
  BY EntryIs
<1> HIDE DEF p, q, m
<1>8. /\ Place(r, V, p.logTerm, p.index) /\ Claim(G, p.logTerm, p.index, p.data)
      /\ G[<<p.logTerm, p.index>>] = H[<<p.logTerm, p.index>>]
  <2>1. Place(r, V, p.logTerm, p.index) /\ Claim(G, p.logTerm, p.index, p.data)
    BY <1>1, <1>5, ClaimStays
  <2> QED
    BY <1>1, <1>5, <2>1 DEF PlacesStay
<1>9. Place(r, V, p.term, p.index + 1)
  <2>1. Place(r, V, p.term, p.index)
    BY <1>1, <1>5 DEF PlacesStay
  <2>2. ASSUME NEW l \in Managers, r.of[l].role = "leader", r.of[l].term = p.term
        PROVE  p.index + 1 <= r.of[l].index
    <3>1. s.of[l].role = "leader" /\ s.of[l].term = p.term
      BY <1>2, <1>3, <2>2 DEF OthersStay, p, q
    <3>2. Majority(VotersFor(V, p.term, l))
      BY <3>1, LeaderHasWon
    <3>3. l = n
      BY <1>6, <3>2, OneWinner
    <3> QED
      BY <1>1, <1>3, <3>3 DEF q
  <2> QED
    BY <2>1, <2>2 DEF Place
<1>10. Claim(G, p.term, p.index + 1, q.data)
  <2>1. <<x>> \in Seq(Nat) /\ Len(<<x>>) = 1
    BY OneAdded
  <2>2. G[<<p.term, p.index + 1>>] = G[<<p.logTerm, p.index>>] \o <<x>>
    BY <1>4, <1>8
  <2> QED
    BY <1>1, <1>3, <1>8, <2>1, <2>2, ClaimNext
<1>11. ManagerFits(r, V, G, n)
  BY <1>3, <1>9, <1>10 DEF ManagerFits, q
<1>12. \A k : MessageFits(r, V, G, k, m)
  BY <1>4, <1>7, <1>8, <1>9 DEF MessageFits
<1> QED
  BY <1>11, <1>12 DEF m

LEMMA UpdatedKeepsCopies ==
  ASSUME NEW e, NEW u, NEW s, NEW n, NEW x, NEW r, NEW V, NEW H, x \in Nat, H \in Histories,
         Formed(s, e, u), n \in Managers, s.of[n].role = "leader", Updated(s, n, x, r),
         Elected(s, V), Once(s, V), Copies(s, V, H)
  PROVE  Copied(r, V)
<1> DEFINE G == NextPlace(H, s.of[n], x)
<1>1. G = NextPlace(H, s.of[n], x)
  OBVIOUS
<1> HIDE DEF G
<1>2. G \in Histories
  <2>1. Prolongs(G, H, s.of[n], x)
    BY <1>1, NextPlaceSays, Zenon
  <2> QED
    BY <2>1 DEF Prolongs
<1>3. PlacesStay(s, V, H, r, V, G)
  BY <1>1, UpdatedPlacesStay, Zenon
<1>4. ManagerFits(s, V, H, n) /\ OthersStay(s, n, r)
  BY DEF Copies, Updated
<1>5. ManagerFits(r, V, G, n) /\ \A k : MessageFits(r, V, G, k, Entry(s, n, x))
  BY <1>1, <1>3, <1>4, UpdatedLeaderFits, Zenon
<1>6. ASSUME NEW k \in Managers PROVE ManagerFits(r, V, G, k)
  <2>1. CASE k # n
    <3>1. ManagerFits(s, V, H, k) /\ r.of[k] = s.of[k]
      BY <1>4, <2>1 DEF Copies, OthersStay
    <3>2. SameLog(s.of[k], r.of[k])
      BY <3>1 DEF SameLog
    <3> QED
      BY <1>3, <3>1, <3>2, ManagerStays
  <2> QED
    BY <1>5, <2>1
<1>7. ASSUME NEW k \in Managers, NEW y \in Of(r.inbox[k]) PROVE MessageFits(r, V, G, k, y)
  <2>1. y \in Of(s.inbox[k]) \/ y = Entry(s, n, x)
    BY DEF Updated
  <2>2. CASE y \in Of(s.inbox[k])
    <3>1. MessageFits(s, V, H, k, y) /\ y \in Mail(s.of[k].role, e, u)
      BY <2>2 DEF Copies, Formed
    <3>2. r.of[k].role = s.of[k].role
      <4>1. CASE k # n
        BY <1>4, <4>1 DEF OthersStay
      <4>2. CASE k = n
        <5>1. s.of[n] \in Processes(e, u) /\ r.of[n] = Changed(s.of[n], x)
          BY FieldsFormed DEF Updated
        <5>2. Extends(s.of[n], x, r.of[n])
          BY <5>1, ChangedIs, Zenon
        <5> QED
          BY <4>2, <5>2 DEF Extends
      <4> QED
        BY <4>1, <4>2
    <3> QED
      BY <1>3, <3>1, <3>2, MessageStays
  <2> QED
    BY <1>5, <2>1, <2>2
<1> QED
  BY <1>2, <1>6, <1>7 DEF Copies, Copied

LEMMA DataUpdateDoes ==
  ASSUME NEW e, NEW u, NEW v, NEW s, NEW n, NEW x, NEW r, NEW V, e \in Nat, u \in Nat, v = u + 1,
         x \in Nat, n \in Managers, Held(s, V, e, u), s.of[n].role = "leader", r = Publishes(s, n, x)
  PROVE  Held(r, V, e, v) /\ (Safe(s, V) => Safe(r, V))
<1>1. Formed(s, e, u) /\ V \subseteq Ballots(e) /\ Elected(s, V)
  BY DEF Held
<1>2. Formed(r, e, v) /\ Updated(s, n, x, r)
  BY <1>1, PublishesDoes
<1>3. Elected(r, V) /\ (Once(s, V) => Once(r, V))
  BY <1>1, <1>2, UpdatedKeepsVotes
<1>4. ASSUME Safe(s, V) PROVE Safe(r, V)
  <2>1. PICK H \in Histories : Copies(s, V, H)
    BY <1>4 DEF Safe, Copied
  <2>2. Once(s, V)
    BY <1>4 DEF Safe
  <2>3. Copied(r, V)
    BY <1>1, <1>2, <2>1, <2>2, UpdatedKeepsCopies
  <2> QED
    BY <1>3, <2>2, <2>3 DEF Safe
<1> QED
  BY <1>1, <1>2, <1>3, <1>4 DEF Held

-----------------------------------------------------------------------------
(* The theorem                                                              *)

\* The inductive invariant: a leader has been voted for by those it counts, and as long as no
\* candidate has gone back, a vote is the only one of its term, and there is a history of the data
\* that all copies agree with.
ElectionInv ==
  /\ elections \in 0..MaxElections /\ updates \in 0..MaxUpdates /\ regressed \in BOOLEAN
  /\ Held(State, votes, elections, updates)
  /\ ~regressed => Safe(State, votes)

LEMMA InitHolds == ElectionInit => ElectionInv
<1> SUFFICES ASSUME ElectionInit PROVE ElectionInv
  OBVIOUS
<1>1. /\ elections \in 0..MaxElections /\ updates \in 0..MaxUpdates /\ votes = {} /\ regressed = FALSE
      /\ inbox = [n \in Managers |-> None]
  BY DEF ElectionInit
<1>2. PICK absent \in SUBSET Managers : manager = [n \in Managers |->
        [role |-> IF n \in absent THEN "absent" ELSE "follower", term |-> DEFAULT_DATA, leaderId |-> NoOne,
         index |-> DEFAULT_DATA, logTerm |-> DEFAULT_DATA,
         lastVoteTerm |-> DEFAULT_DATA, lastVoteFor |-> NoOne, voters |-> {},
         asks |-> 0, isFreshman |-> TRUE, data |-> None]]
  BY DEF ElectionInit
<1>3. \A k \in Managers :
        /\ manager[k].role \in {"absent", "follower"} /\ manager[k].term = DEFAULT_DATA
        /\ manager[k].index = DEFAULT_DATA /\ manager[k].logTerm = DEFAULT_DATA
        /\ manager[k].lastVoteTerm = DEFAULT_DATA /\ manager[k].lastVoteFor = NoOne
        /\ manager[k].data = None /\ inbox[k] = None
  BY <1>1, <1>2
<1>4. DEFAULT_DATA \in UpTo(elections) /\ DEFAULT_DATA \in UpTo(updates)
  BY <1>1, ElectionAssumption DEF UpTo, DEFAULT_DATA
<1>5. manager \in [Managers -> Processes(elections, updates)]
  <2>1. None \in Seq(Nat) /\ {} \in SUBSET Managers /\ 0 \in Nat /\ TRUE \in BOOLEAN
    BY DEF None
  <2>2. "absent" \in Roles /\ "follower" \in Roles /\ NoOne \in Managers \cup {NoOne}
    BY DEF Roles
  <2> QED
    BY <1>2, <1>4, <2>1, <2>2 DEF Processes
<1>6. inbox \in [Managers -> Seq(AnyMail(elections, updates))]
  <2>1. None \in Seq(AnyMail(elections, updates))
    BY DEF None
  <2> QED
    BY <1>1, <2>1
<1> DEFINE s == State
<1>7. s \in States(elections, updates) /\ s.of = manager /\ s.inbox = inbox
  BY <1>5, <1>6 DEF States, State
<1> HIDE DEF s
<1>8. \A k \in Managers : Of(s.inbox[k]) = {}
  BY <1>3, <1>7, OfNone
<1>9. Held(s, votes, elections, updates)
  <2>1. Formed(s, elections, updates)
    BY <1>7, <1>8 DEF Formed
  <2>2. Remembered(s, votes) /\ Backed(s, votes) /\ Counted(s, votes)
    BY <1>3, <1>7, <1>8 DEF Remembered, Backed, Counted
  <2> QED
    BY <1>1, <2>1, <2>2 DEF Held, Elected
<1>10. Once(s, votes)
  BY <1>1, <1>3, <1>7 DEF Once, DEFAULT_DATA
<1>11. Copied(s, votes)
  <2> DEFINE H == [place \in Int \X Int |-> None]
  <2>1. H \in Histories /\ \A term, index \in Int : H[<<term, index>>] = None
    BY DEF Histories, None
  <2> HIDE DEF H
  <2>2. ASSUME NEW k \in Managers PROVE ManagerFits(s, votes, H, k)
    <3>1. /\ s.of[k].role \in {"absent", "follower"} /\ s.of[k].index = DEFAULT_DATA
          /\ s.of[k].logTerm = DEFAULT_DATA /\ s.of[k].data = None
      BY <1>3, <1>7
    <3>2. Place(s, votes, DEFAULT_DATA, DEFAULT_DATA)
      BY <1>3, <1>7 DEF Place
    <3>3. Claim(H, DEFAULT_DATA, DEFAULT_DATA, None)
      BY <2>1 DEF Claim, None, DEFAULT_DATA
    <3> QED
      BY <3>1, <3>2, <3>3 DEF ManagerFits
  <2> QED
    BY <1>8, <2>1, <2>2 DEF Copied, Copies
<1> QED
  BY <1>1, <1>9, <1>10, <1>11 DEF ElectionInv, Safe, s

LEMMA StateIs ==
  ASSUME NEW e, NEW u, NEW r, Formed(r, e, u), Do(r)
  PROVE  State' = r
<1>1. r \in States(e, u)
  BY DEF Formed
<1>2. r = [of |-> r.of, inbox |-> r.inbox]
  BY <1>1 DEF States
<1> QED
  BY <1>2 DEF Do, State

LEMMA HeldFormed ==
  ASSUME NEW s, NEW V, NEW e, NEW u, Held(s, V, e, u) PROVE Formed(s, e, u)
BY DEF Held

LEMMA InvInts ==
  ASSUME ElectionInv
  PROVE  /\ elections \in Nat /\ updates \in Nat /\ Held(State, votes, elections, updates)
         /\ State.of = manager /\ State.inbox = inbox
         /\ ~regressed => Safe(State, votes)
BY ElectionAssumption DEF ElectionInv, State

LEMMA ReceiveKeeps ==
  ASSUME ElectionInv, NEW n \in Managers, Receive(n)
  PROVE  ElectionInv'
<1> DEFINE s == State
           p == Popped(s, n)
           m == Head(s.inbox[n])
           r == Handled(p, n, m)
           W == Cast(votes, n, m, r)
<1>1. /\ elections \in Nat /\ updates \in Nat /\ Held(s, votes, elections, updates)
      /\ s.of = manager /\ s.inbox = inbox /\ (~regressed => Safe(s, votes))
  BY InvInts
<1>2. /\ s.inbox[n] # None /\ Do(r) /\ votes' = W
      /\ regressed' = (regressed \/ r.of[n].term < manager[n].term)
      /\ UNCHANGED <<updates, quits, elections>>
  BY <1>1 DEF Receive, Popped, Cast
<1>3. p = Popped(s, n) /\ m = Head(s.inbox[n]) /\ r = Handled(p, n, m) /\ W = Cast(votes, n, m, r)
  OBVIOUS
<1> HIDE DEF s, p, m, r, W
<1>4. Held(r, W, elections, updates)
  BY <1>1, <1>2, <1>3, ReceiveDoes
<1>5. r.of[n].term >= s.of[n].term /\ Safe(s, votes) => Safe(r, W)
  BY <1>1, <1>2, <1>3, <1>4, ReceiveDoes
<1>6. State' = r
  BY <1>2, <1>4, HeldFormed, StateIs
<1>7. s.of[n].term \in Int /\ r.of[n].term \in Int
  <2>1. Formed(s, elections, updates) /\ Formed(r, elections, updates)
    BY <1>1, <1>4, HeldFormed
  <2> QED
    BY <2>1, FieldsFormed
<1>8. ~regressed' => Safe(r, W)
  <2> SUFFICES ASSUME ~regressed' PROVE Safe(r, W)
    OBVIOUS
  <2>1. ~regressed /\ ~(r.of[n].term < s.of[n].term)
    BY <1>1, <1>2
  <2>2. r.of[n].term >= s.of[n].term
    BY <1>7, <2>1
  <2> QED
    BY <1>1, <1>5, <2>1, <2>2
<1>9. regressed' \in BOOLEAN
  BY <1>2
<1> QED
  BY <1>2, <1>4, <1>6, <1>8, <1>9 DEF ElectionInv

\* A step that leaves the votes and does not go back.
LEMMA StepKeeps ==
  ASSUME ElectionInv, NEW r, Do(r), UNCHANGED <<votes, regressed>>,
         elections' \in 0..MaxElections, updates' \in 0..MaxUpdates,
         Held(r, votes, elections', updates'), Safe(State, votes) => Safe(r, votes)
  PROVE  ElectionInv'
<1>1. State' = r
  BY HeldFormed, StateIs
<1>2. ~regressed' => Safe(r, votes')
  BY DEF ElectionInv
<1> QED
  BY <1>1, <1>2 DEF ElectionInv

LEMMA StandKeeps ==
  ASSUME ElectionInv, NEW n \in Managers, LoseHeartbeat(n) \/ ElectTimeout(n)
  PROVE  ElectionInv'
<1> DEFINE s == State
<1>1. /\ elections \in Nat /\ updates \in Nat /\ Held(s, votes, elections, updates)
      /\ s.of = manager /\ s.inbox = inbox
  BY InvInts
<1>2. PICK t : /\ Stand(t, n)
               /\ \/ s.of[n].role = "candidate" /\ t = s
                  \/ s.of[n].role = "follower" /\ t = ChangeRole(s, n, "candidate", s.of[n].term)
  BY <1>1 DEF LoseHeartbeat, ElectTimeout
<1> DEFINE r == RunAsCandidate(t, n)
<1>3. /\ elections < MaxElections /\ elections' = elections + 1 /\ Do(r)
      /\ UNCHANGED <<updates, quits, votes, regressed>>
  BY <1>2 DEF Stand
<1>4. r = RunAsCandidate(t, n)
  OBVIOUS
<1> HIDE DEF r, s
<1>5. Held(r, votes, elections', updates)
  BY <1>1, <1>2, <1>3, <1>4, StandDoes
<1>6. Safe(s, votes) => Safe(r, votes)
  BY <1>1, <1>2, <1>3, <1>4, <1>5, StandDoes
<1>7. elections' \in 0..MaxElections /\ updates' \in 0..MaxUpdates
  BY <1>1, <1>3, ElectionAssumption DEF ElectionInv
<1> QED
  BY <1>3, <1>5, <1>6, <1>7, StepKeeps DEF s

LEMMA DataUpdateKeeps ==
  ASSUME ElectionInv, NEW n \in Managers, DataUpdate(n)
  PROVE  ElectionInv'
<1> DEFINE s == State
           x == updates + 1
           r == Publishes(s, n, x)
<1>1. /\ elections \in Nat /\ updates \in Nat /\ Held(s, votes, elections, updates)
      /\ s.of = manager /\ s.inbox = inbox
  BY InvInts
<1>2. /\ s.of[n].role = "leader" /\ updates < MaxUpdates /\ updates' = x
      /\ UNCHANGED <<quits, elections, votes, regressed>>
  BY <1>1 DEF DataUpdate
<1>3. Do(r)
  <2>1. PublishOn(s, "follower", Entry(s, n, x)).of = s.of
    BY <1>1 DEF PublishOn, State
  <2> DEFINE t == PublishOn(s, "follower", Entry(s, n, x))
  <2>2. Do([t EXCEPT !.of[n] = [@ EXCEPT !.index = manager[n].index + 1, !.logTerm = manager[n].term,
                                         !.data = Append(manager[n].data, updates + 1)]])
    BY DEF DataUpdate, Entry
  <2>3. [t.of[n] EXCEPT !.index = manager[n].index + 1, !.logTerm = manager[n].term,
                        !.data = Append(manager[n].data, updates + 1)] = Changed(s.of[n], x)
    BY <1>1, <2>1 DEF Changed
  <2> HIDE DEF t
  <2> QED
    BY <2>2, <2>3 DEF Publishes, With, t
<1>4. r = Publishes(s, n, x) /\ x \in Nat /\ x = updates + 1
  BY <1>1
<1> HIDE DEF s, r, x
<1>5. Held(r, votes, elections, x)
  BY <1>1, <1>2, <1>4, DataUpdateDoes
<1>6. Safe(s, votes) => Safe(r, votes)
  BY <1>1, <1>2, <1>4, <1>5, DataUpdateDoes
<1>7. elections' \in 0..MaxElections /\ updates' \in 0..MaxUpdates
  BY <1>1, <1>2, <1>4, ElectionAssumption DEF ElectionInv
<1> QED
  BY <1>2, <1>3, <1>5, <1>6, <1>7, StepKeeps DEF s

LEMMA NextKeeps ==
  ASSUME ElectionInv, [ElectionNext]_electionVars
  PROVE  ElectionInv'
<1>1. CASE UNCHANGED electionVars
  BY <1>1 DEF ElectionInv, electionVars, State
<1>2. ASSUME NEW n \in Managers, LoseOwnHeartbeat(n) \/ Heartbeat(n) \/ SnapshotTimeout(n)
      PROVE  ElectionInv'
  <2> DEFINE s == State
  <2>1. /\ elections \in Nat /\ updates \in Nat /\ Held(s, votes, elections, updates)
        /\ s.of = manager /\ s.inbox = inbox
    BY InvInts
  <2>2. /\ elections' = elections /\ updates' = updates
        /\ elections' \in 0..MaxElections /\ updates' \in 0..MaxUpdates
        /\ UNCHANGED <<votes, regressed>>
    BY <1>2 DEF LoseOwnHeartbeat, Heartbeat, SnapshotTimeout, ElectionInv
  <2>3. PICK r : /\ Do(r)
                 /\ \/ r = LeaveOffice(s, n, s.of[n].term)
                    \/ r = SendHeartbeat(s, n) /\ s.of[n].role = "leader"
                    \/ r = InstallSnapshotOver(s, n)
    BY <1>2, <2>1 DEF LoseOwnHeartbeat, Heartbeat, SnapshotTimeout
  <2> HIDE DEF s
  <2>4. Held(r, votes, elections, updates) /\ (Safe(s, votes) => Safe(r, votes))
    <3>1. CASE r = LeaveOffice(s, n, s.of[n].term)
      BY <2>1, <3>1, LoseOwnHeartbeatDoes
    <3>2. CASE r = SendHeartbeat(s, n) /\ s.of[n].role = "leader"
      BY <2>1, <3>2, HeartbeatDoes
    <3>3. CASE r = InstallSnapshotOver(s, n)
      BY <2>1, <3>3, SnapshotTimeoutDoes
    <3> QED
      BY <2>3, <3>1, <3>2, <3>3
  <2> QED
    BY <2>2, <2>3, <2>4, StepKeeps DEF s
<1> QED
  BY <1>1, <1>2, ReceiveKeeps, StandKeeps, DataUpdateKeeps DEF ElectionNext

LEMMA InvTypes == ASSUME ElectionInv PROVE ElectionTypeOK
<1>1. /\ elections \in Nat /\ updates \in Nat /\ Held(State, votes, elections, updates)
      /\ State.of = manager
  BY InvInts
<1>2. manager \in [Managers -> Processes(elections, updates)] /\ votes \subseteq Ballots(elections)
  BY <1>1 DEF Held, Formed, States
<1>3. UpTo(elections) \subseteq Terms /\ UpTo(updates) \subseteq DEFAULT_DATA..MaxUpdates
  BY <1>1, ElectionAssumption DEF UpTo, Terms, DEFAULT_DATA, ElectionInv
<1>4. ASSUME NEW n \in Managers
      PROVE  /\ manager[n].role \in {"absent", "follower", "candidate", "leader"}
             /\ manager[n].term \in Terms /\ manager[n].leaderId \in Managers \cup {NoOne}
             /\ manager[n].index \in DEFAULT_DATA..MaxUpdates /\ manager[n].logTerm \in Terms
             /\ manager[n].voters \subseteq Managers /\ manager[n].asks \in Nat
  BY <1>2, <1>3 DEF Processes, Roles
<1>5. votes \subseteq Managers \X Terms \X Managers
  BY <1>2, <1>3 DEF Ballots
<1> QED
  BY <1>4, <1>5 DEF ElectionTypeOK

LEMMA InvSafe == ASSUME ElectionInv PROVE ElectionSafe
<1> DEFINE s == State
<1>1. /\ Held(s, votes, elections, updates) /\ s.of = manager /\ (~regressed => Safe(s, votes))
  BY InvInts
<1>2. Formed(s, elections, updates) /\ Elected(s, votes)
  BY <1>1 DEF Held
<1> HIDE DEF s
<1>3. ASSUME NEW n \in Leaders PROVE Majority(VotersFor(votes, manager[n].term, n))
  <2>1. n \in Managers /\ s.of[n].role = "leader"
    BY <1>1 DEF Leaders
  <2> QED
    BY <1>1, <1>2, <2>1, LeaderHasWon
<1>4. LeaderElected
  BY <1>3 DEF LeaderElected, Electors, VotersFor, Majority
<1>5. ASSUME ~regressed PROVE OneVotePerTerm /\ OneLeaderPerTerm /\ ReplicasMatch
  <2>1. Once(s, votes)
    BY <1>1, <1>5 DEF Safe
  <2>2. OneVotePerTerm
    BY <2>1 DEF Once, OneVotePerTerm
  <2>3. OneLeaderPerTerm
    <3> SUFFICES ASSUME NEW a \in Leaders, NEW b \in Leaders, manager[a].term = manager[b].term
                 PROVE  a = b
      BY DEF OneLeaderPerTerm
    <3>1. /\ Majority(VotersFor(votes, manager[a].term, a))
          /\ Majority(VotersFor(votes, manager[a].term, b))
      BY <1>3
    <3> QED
      BY <2>1, <3>1, OneWinner
  <2>4. ReplicasMatch
    <3>1. PICK H \in Histories : Copies(s, votes, H)
      BY <1>1, <1>5 DEF Safe, Copied
    <3>2. \A k \in Managers :
            Whole(k) => manager[k].data = H[<<manager[k].logTerm, manager[k].index>>]
      BY <1>1, <3>1 DEF Copies, ManagerFits, Claim, Whole
    <3> QED
      BY <3>2 DEF ReplicasMatch
  <2> QED
    BY <2>2, <2>3, <2>4
<1> QED
  BY <1>4, <1>5 DEF ElectionSafe

\* Of any number of managers each that serves was elected by more than half of them, and as long as
\* no candidate follows a leader of an earlier term (heartbeatHandler of runAsCandidate does not
\* compare terms), a manager votes once in a term, no two serve in one, and managers that have the
\* data of every change they count, and have their last entries at the same place and term, have
\* the same data.
THEOREM ElectionIsSafe == ElectionSpec => []ElectionHolds
<1>1. ElectionInit => ElectionInv
  BY InitHolds
<1>2. ElectionInv /\ [ElectionNext]_electionVars => ElectionInv'
  BY NextKeeps
<1>3. ElectionInv => ElectionHolds
  BY InvTypes, InvSafe DEF ElectionHolds
<1> QED
  BY <1>1, <1>2, <1>3, PTL DEF ElectionSpec
=============================================================================
