----------------------------- MODULE SymbolMap ------------------------------
(***************************************************************************)
(* What a dictionary of symbols promises, without slots or probes: a name  *)
(* has at most one meaning, which is the last it was given; a lookup gives *)
(* the meaning of the name it was asked for.  The dictionary may give up   *)
(* on a new name only when there is no room.                               *)
(***************************************************************************)
CONSTANTS SymbolNames, Meanings
VARIABLES
  map,     \* for each name, the set of its meanings
  answer,  \* the last answer: a set of at most one symbol
  room,    \* whether another name can be taken in
  failed   \* whether a name was refused

Put(name, meaning) ==
  /\ map' = [map EXCEPT ![name] = {meaning}]
  /\ map[name] = {} => room
  /\ UNCHANGED <<answer, failed>>

Get(name) ==
  /\ answer' = {[name |-> name, meaning |-> m] : m \in map[name]}
  /\ UNCHANGED <<map, room, failed>>

Refuse(name) ==
  /\ map[name] = {} /\ ~ room
  /\ failed' = TRUE
  /\ UNCHANGED <<map, answer, room>>

MapInit == map = [name \in SymbolNames |-> {}] /\ answer = {} /\ failed = FALSE

MapNext ==
  \E name \in SymbolNames :
    \/ \E meaning \in Meanings : Put(name, meaning)
    \/ Get(name)
    \/ Refuse(name)

MapSpec == MapInit /\ [][MapNext]_<<map, answer, room, failed>>
=============================================================================
