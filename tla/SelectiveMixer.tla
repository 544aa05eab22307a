--------------------------- MODULE SelectiveMixer ---------------------------
(***************************************************************************)
(* An audio node that mixes the loudest streams only                         *)
(* (source/agent/audio/selectiveMixer.js).  The ranking is kept by a thread *)
(* of the native AudioRanker (source/core/owt_base/selector), which tells   *)
(* the node of a new one at most once in CHANGE_INTERVAL; the node handles  *)
(* what it is told later, between the calls that add and remove inputs.     *)
(***************************************************************************)
EXTENDS Integers, Sequences, FiniteSets, SequencesExt, Functions

CONSTANTS Speakers,   \* streams
          Nobody,     \* the empty stream id of a place in a ranking
          K,          \* number of places
          MaxChanges, \* bound: rankings under way to the node
          MaxTurns    \* bound: changes of the levels

ASSUME SelectiveAssumption ==
  Nobody \notin Speakers /\ K \in Nat /\ MaxChanges \in Nat /\ MaxTurns \in Nat

Places == 1..K
Empty == [i \in Places |-> Nobody]
Ranked(rank) == Range(rank) \ {Nobody}

VARIABLES
  inputs,   \* the inputs of the node, and of the ranker
  rank,     \* currentRank
  heard,    \* the inputs of the mixer behind it
  top,      \* the ranker's places: m_topK by the output they are linked to
  told,     \* m_lastUpdates
  stashed,  \* m_stashChange
  changes,  \* rankings under way to the node
  again,    \* streams that were added while an old ranking still named them
  turns     \* counter

selectiveVars == <<inputs, rank, heard, top, told, stashed, changes, again, turns>>

SelectiveInit ==
  /\ inputs = {} /\ rank = Empty /\ heard = {}
  /\ top = Empty /\ told = Empty /\ stashed = FALSE
  /\ changes = <<>> /\ again = {} /\ turns = 0

-----------------------------------------------------------------------------

\* triggerRankChange: within the interval of the last one it is stashed.
TriggerRankChange(new) ==
  /\ top' = new
  /\ \/ stashed' = TRUE /\ UNCHANGED <<told, changes>>
     \/ /\ stashed' = FALSE /\ told' = new
        /\ IF new = told THEN UNCHANGED changes
           ELSE Len(changes) < MaxChanges /\ changes' = Append(changes, new)

\* The others are told nothing.
KeepRanking == UNCHANGED <<top, told, stashed, changes>>

NamedEarlier(s) == s \in Ranked(rank) \cup Ranked(told) \cup UNION {Ranked(c) : c \in Range(changes)}

\* addInput: a place that is free, or one of the others.
AddSpeaker(s) ==
  /\ s \notin inputs
  /\ inputs' = inputs \cup {s}
  /\ again' = IF NamedEarlier(s) THEN again \cup {s} ELSE again
  /\ IF Nobody \in Range(top)
       THEN \E i \in Places : top[i] = Nobody /\ TriggerRankChange([top EXCEPT ![i] = s])
       ELSE KeepRanking
  /\ UNCHANGED <<rank, heard, turns>>

NotHeard(s, i) == [rank EXCEPT ![i] = Nobody]

\* removeInput waits for the ranker; the loudest of the others gets the place.
RemoveSpeaker(s) ==
  LET others == inputs \ (Ranked(top) \cup {s})
  IN  /\ s \in inputs
      /\ inputs' = inputs \ {s}
      /\ IF s \in Range(rank)
           THEN heard' = heard \ {s} /\ rank' = NotHeard(s, CHOOSE i \in Places : rank[i] = s)
           ELSE UNCHANGED <<heard, rank>>
      /\ IF s \in Range(top)
           THEN \E new \in IF others = {} THEN {Nobody} ELSE others :
                  TriggerRankChange([i \in Places |-> IF top[i] = s THEN new ELSE top[i]])
           ELSE KeepRanking
      /\ UNCHANGED <<again, turns>>

\* updateInput: one of the others gets louder than one that has a place.
Louder(s, i) ==
  /\ s \in inputs \ Ranked(top) /\ top[i] # Nobody
  /\ turns < MaxTurns /\ turns' = turns + 1
  /\ TriggerRankChange([top EXCEPT ![i] = s])
  /\ UNCHANGED <<inputs, rank, heard, again>>

\* updateInput of any input, when the interval is over.
Flush ==
  /\ stashed /\ inputs # {}
  /\ TriggerRankChange(top) /\ stashed' = FALSE
  /\ UNCHANGED <<inputs, rank, heard, again, turns>>

\* _onRankChange: what has left a place is removed first, then what is in it is added.
RankChange ==
  LET new   == Head(changes)
      moved == {i \in Places : rank[i] # new[i]}
  IN  /\ changes # <<>> /\ changes' = Tail(changes)
      /\ heard' = (heard \ {rank[i] : i \in moved}) \cup ({new[i] : i \in moved} \cap inputs)
      /\ rank' = new
      /\ UNCHANGED <<inputs, top, told, stashed, again, turns>>

SelectiveNext ==
  \/ \E s \in Speakers : AddSpeaker(s) \/ RemoveSpeaker(s) \/ \E i \in Places : Louder(s, i)
  \/ Flush \/ RankChange

SelectiveSpec == SelectiveInit /\ [][SelectiveNext]_selectiveVars

-----------------------------------------------------------------------------

\* Types of the variables of the selective mixer.
SelectiveTypeOK ==
  /\ inputs \subseteq Speakers /\ heard \subseteq Speakers /\ again \subseteq Speakers
  /\ \A r \in {rank, top, told} : r \in [Places -> Speakers \cup {Nobody}]
  /\ changes \in Seq([Places -> Speakers \cup {Nobody}]) /\ stashed \in BOOLEAN

\* A ranking names a stream once.
Injective(r) == \A i, j \in Places : r[i] = r[j] /\ r[i] # Nobody => i = j

\* The mixer has inputs of the node that have a place in its ranking, and all of them, except
\* those that were added while an earlier ranking named them.  Once the node has handled what it
\* was told, its ranking is the one that was told last; and if nothing is stashed, the ranker's.
SelectiveAgrees ==
  /\ Injective(top) /\ Injective(rank)
  /\ heard \subseteq inputs \cap Ranked(rank)
  /\ (inputs \cap Ranked(rank)) \ again \subseteq heard
  /\ changes = <<>> => \A i \in Places :
       told[i] # rank[i] => rank[i] = Nobody /\ told[i] \notin inputs \ again
  /\ ~stashed => told = top
=============================================================================
