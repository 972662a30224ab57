---------------------------- MODULE CallService ----------------------------
(***************************************************************************)
(* What the sessions of a SIP stack may rely on, without messages, handles *)
(* or dialogs: a session never has two calls that are being set up or are  *)
(* up; a call the stack knows is not let go of silently: its owner gets a  *)
(* report with the very step that forgets the call, unless it was asked    *)
(* for, when the report follows with the end of the call; what was         *)
(* reported is not reported away; nothing is over twice, and nothing       *)
(* happens to a call once the stack has ended.                             *)
(***************************************************************************)
CONSTANTS Call, Session, NoSession

VARIABLES
    owner,      \* call -> the session it belongs to
    phase,      \* call -> how far it has got
    known,      \* calls that a request can reach
    reported,   \* calls whose end was reported to their owner
    gone,       \* sessions that no longer exist
    serving     \* the stack is up

cvars == <<owner, phase, known, reported, gone, serving>>

Busy == {"setup", "up"}

Init ==
    /\ owner = [c \in Call |-> NoSession]
    /\ phase = [c \in Call |-> "none"]
    /\ known = {}
    /\ reported = {}
    /\ gone = {}
    /\ serving = TRUE

\* The calls of D whose owner can be told.
Heard(D) == {c \in D : owner[c] \in Session \ gone}

\* A session makes a call, or is offered one; who deletes a session with its
\* MakeCall under way still gets the call.
Begin(c, s) ==
    /\ serving
    /\ phase[c] = "none"
    /\ \A d \in Call : owner[d] = s => phase[d] \notin Busy
    /\ owner' = [owner EXCEPT ![c] = s]
    /\ phase' = [phase EXCEPT ![c] = "setup"]
    /\ known' \in {known, known \cup {c}}
    /\ UNCHANGED <<reported, gone, serving>>

\* An incoming call that nobody is there to take.
Refuse(c) ==
    /\ serving
    /\ phase[c] = "none"
    /\ phase' = [phase EXCEPT ![c] = "over"]
    /\ UNCHANGED <<owner, known, reported, gone, serving>>

\* The remote party is heard of.
Meet(c) ==
    /\ serving
    /\ phase[c] = "setup"
    /\ c \notin known
    /\ known' = known \cup {c}
    /\ UNCHANGED <<owner, phase, reported, gone, serving>>

Connect(c) ==
    /\ serving
    /\ phase[c] = "setup"
    /\ c \in known
    /\ phase' = [phase EXCEPT ![c] = "up"]
    /\ UNCHANGED <<owner, known, reported, gone, serving>>

\* The owner asks for the end of a call, and the other side is slow to agree.
Release(c) ==
    /\ serving
    /\ c \in known
    /\ phase[c] \in Busy
    /\ phase' = [phase EXCEPT ![c] = "ending"]
    /\ known' = known \ {c}
    /\ UNCHANGED <<owner, reported, gone, serving>>

\* A call ends, whoever wanted it.
Finish(c) ==
    /\ serving
    /\ phase[c] \in Busy \cup {"ending"}
    /\ phase' = [phase EXCEPT ![c] = "over"]
    /\ known' = known \ {c}
    /\ reported' = reported \cup Heard({c})
    /\ UNCHANGED <<owner, gone, serving>>

\* The session timer of a call that is up runs out: nobody can reach the call any
\* more, although the dialog with the other side goes on.
Expire(c) ==
    /\ serving
    /\ phase[c] = "up"
    /\ c \in known
    /\ known' = known \ {c}
    /\ reported' = reported \cup Heard({c})
    /\ UNCHANGED <<owner, phase, gone, serving>>

\* A session is deleted.
Leave(s) ==
    /\ s \notin gone
    /\ gone' = gone \cup {s}
    /\ UNCHANGED <<owner, phase, known, reported, serving>>

\* The stack ends: the calls it knows are reported, and those it was ending
\* already stay so for ever.
Quit ==
    /\ serving
    /\ serving' = FALSE
    /\ reported' = reported \cup Heard(known)
    /\ known' = {}
    /\ phase' = [c \in Call |-> IF phase[c] \in Busy THEN "over" ELSE phase[c]]
    /\ UNCHANGED <<owner, gone>>

Next ==
    \/ \E c \in Call : \/ \E s \in Session : Begin(c, s)
                       \/ Refuse(c) \/ Meet(c) \/ Connect(c) \/ Release(c) \/ Finish(c) \/ Expire(c)
    \/ \E s \in Session : Leave(s)
    \/ Quit

Spec == Init /\ [][Next]_cvars
=============================================================================
