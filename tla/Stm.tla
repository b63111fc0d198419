-------------------------------- MODULE Stm --------------------------------
(***************************************************************************)
(* Short-term memory: a list of notes per agent and a bulletin board per     *)
(* fleet, newest first, capped and forgotten after a time to live.  The      *)
(* board is the state of one backend: Redis, or the process with the         *)
(* in-memory one.  Redis failures are swallowed: a read finds nothing, a     *)
(* write or a clear is dropped.                                              *)
(***************************************************************************)
EXTENDS Memories
LOCAL INSTANCE SequencesExt

CONSTANTS
    NotesMax,       \* notes_max_entries, also the limit of a search's read
    BulletinMax     \* bulletin_max_entries, likewise

VARIABLES
    sboard,     \* [place -> entries, newest first]
    scalls      \* requests not yet served

stmVars == <<sboard, scalls>>

Cap(place) == IF place[1] = "notes" THEN NotesMax ELSE BulletinMax

\* The first n entries.
Upto(s, n) == SubSeq(s, 1, IF n < Len(s) THEN n ELSE Len(s))

At(place) == IF place \in DOMAIN sboard THEN sboard[place] ELSE <<>>
Put(place, s) == [p \in DOMAIN sboard \cup {place} |-> IF p = place THEN s ELSE sboard[p]]

\* Private entries are notes of their author; the others go to the fleet's bulletin.
resolve_stm_target(c) == IF c.vis = "agent" THEN <<"notes", c.agent>> ELSE <<"bul", IF c.fleet = NoFleet THEN "default" ELSE c.fleet>>

post_note(place, e) == sboard' = Put(place, Upto(<<e>> \o At(place), Cap(place)))

write_stm_note(c) ==
    /\ c.op = "post"
    /\ \/ Smooth /\ post_note(resolve_stm_target(c), [agent |-> c.agent, text |-> c.text, vis |-> c.vis, fleet |-> c.fleet])
       \/ Fault /\ UNCHANGED sboard
    /\ scalls' = scalls \ {c} /\ UNCHANGED <<nscene, nmem>>

\* An agent's credential clears its own notes only; any credential of the tenant clears a bulletin.
ClearRefused(c) == c.place[1] = "notes" /\ c.auth # "none" /\ c.place[2] # c.auth
clear_notes(c) ==
    /\ c.op = "clear"
    /\ \/ ClearRefused(c) /\ Smooth /\ UNCHANGED sboard
       \/ ~ClearRefused(c) /\ Smooth /\ sboard' = Put(c.place, <<>>)
       \/ ~ClearRefused(c) /\ Fault /\ UNCHANGED sboard
    /\ scalls' = scalls \ {c} /\ UNCHANGED <<nscene, nmem>>

\* Time passes: the in-memory backend drops the old end of a list, Redis the whole of it.
Forget(c) ==
    /\ c.op = "forget"
    /\ \E n \in 0 .. Len(At(c.place)) : sboard' = Put(c.place, Upto(At(c.place), n))
    /\ scalls' = scalls \ {c} /\ UNCHANGED memVars

\* A note becomes a memory of its author, not embedded yet, unless that text is there already.
promote(c) ==
    /\ c.op = "promote" /\ Smooth
    /\ IF (c.auth # "none" /\ c.agent # c.auth) \/ find_by_content_hash(c.agent, c.fleet, c.text) # {}
       THEN UNCHANGED nmem
       ELSE memory_add([Fresh EXCEPT !.owner = c.agent, !.fleet = c.fleet, !.text = c.text, !.vis = c.vis, !.vec = FALSE])
    /\ scalls' = scalls \ {c} /\ UNCHANGED <<nscene, sboard>>

StmInit(sc) == sboard = <<>> /\ scalls = sc.calls

StmStep == \E c \in scalls : write_stm_note(c) \/ clear_notes(c) \/ Forget(c) \/ promote(c)

get_notes(agent) == Range(Upto(At(<<"notes", agent>>), NotesMax))
get_bulletin(fleet) == Range(Upto(At(<<"bul", fleet>>), BulletinMax))
=============================================================================
