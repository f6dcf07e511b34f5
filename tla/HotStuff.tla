------------------------------ MODULE HotStuff -------------------------------
(***************************************************************************)
(* The engine of consensus/hotstuff.rs: the main loop, the message loop    *)
(* and the view timer of a node, which only talks to itself.  The first    *)
(* proposal carries genesis_qc, which has no signature, so verify_qc turns *)
(* it down; no vote reaches the message loop, so no other certificate is   *)
(* made and what lies behind verify_qc never runs.  The node's own votes   *)
(* go to a channel that nobody reads.  Views count modulo the number of    *)
(* validators, which is all that is_leader looks at.                       *)
(***************************************************************************)
EXTENDS Integers, Sequences

CONSTANTS HsValidators,   \* how many there are; this node leads the views = 0
          VoteSlots,      \* the capacity of the vote channel (1000)
          MsgSlots        \* the capacity of the message channel (1000)

ASSUME HotStuffAssumption == HsValidators \in Nat \ {0} /\ VoteSlots \in Nat /\ MsgSlots \in Nat \ {0}

VARIABLES
    hsView,      \* view
    hsTicks,     \* history: the ticks of the timer, modulo two per view
    hsTimer,     \* view_change_timer: what it is doing, current_view and last_view
    hsMain,      \* the main loop: what it is doing and the view it proposes in
    hsMsgs,      \* the message channel: the views of the proposals
    hsVotes,     \* the vote channel: how many votes it holds
    hsProposals  \* history: how many proposals were begun

hsVars == <<hsView, hsTicks, hsTimer, hsMain, hsMsgs, hsVotes, hsProposals>>

HsInit ==
    /\ hsView = 0 /\ hsTicks = 0 /\ hsMsgs = <<>> /\ hsVotes = 0 /\ hsProposals = 0
    /\ hsTimer = [at |-> "wait", current |-> 0, last |-> 0]
    /\ hsMain = [at |-> "loop", view |-> 0]

IsLeader(v) == v = 0

(* The main loop looks at the view, propose reads it again. *)
MainLooks ==
    /\ hsMain.at = "loop" /\ IsLeader(hsView)
    /\ hsMain' = [hsMain EXCEPT !.at = "propose"]
    /\ UNCHANGED <<hsView, hsTicks, hsTimer, hsMsgs, hsVotes, hsProposals>>

MainProposes ==
    /\ hsMain.at = "propose"
    /\ hsMain' = [at |-> "broadcast", view |-> hsView]
    /\ hsProposals' = hsProposals + 1
    /\ UNCHANGED <<hsView, hsTicks, hsTimer, hsMsgs, hsVotes>>

MainBroadcasts ==
    /\ hsMain.at = "broadcast" /\ Len(hsMsgs) < MsgSlots
    /\ hsMsgs' = Append(hsMsgs, hsMain.view)
    /\ hsMain' = [hsMain EXCEPT !.at = "vote"]
    /\ UNCHANGED <<hsView, hsTicks, hsTimer, hsVotes, hsProposals>>

VoteSent_Lossy ==
    hsVotes' = IF hsVotes < VoteSlots THEN hsVotes + 1 ELSE hsVotes

VoteSent ==
    hsVotes < VoteSlots /\ hsVotes' = hsVotes + 1

MainVotes ==
    /\ hsMain.at = "vote" /\ VoteSent
    /\ hsMain' = [hsMain EXCEPT !.at = "loop"]
    /\ UNCHANGED <<hsView, hsTicks, hsTimer, hsMsgs, hsProposals>>

(* verify_qc for the certificate of every proposal, genesis_qc *)
VerifyQC == 0 >= (HsValidators * 2) \div 3 + 1

(* handle_proposal: a proposal of another view is dropped, and so is one    *)
(* whose certificate does not verify.                                       *)
HandleProposal ==
    /\ hsMsgs # <<>>
    /\ Head(hsMsgs) # hsView \/ ~VerifyQC
    /\ hsMsgs' = Tail(hsMsgs)
    /\ UNCHANGED <<hsView, hsTicks, hsTimer, hsMain, hsVotes, hsProposals>>

(* view_change_timer reads the view and writes it in two steps. *)
TimerReads ==
    /\ hsTimer.at = "wait"
    /\ hsTimer' = IF hsView = hsTimer.last
                  THEN [hsTimer EXCEPT !.at = "write", !.current = hsView]
                  ELSE [hsTimer EXCEPT !.last = hsView]
    /\ hsTicks' = (hsTicks + 1) % (2 * HsValidators)
    /\ UNCHANGED <<hsView, hsMain, hsMsgs, hsVotes, hsProposals>>

TimerWrites ==
    /\ hsTimer.at = "write"
    /\ hsView' = (hsTimer.current + 1) % HsValidators
    /\ hsTimer' = [at |-> "wait", current |-> 0, last |-> hsTimer.current]
    /\ UNCHANGED <<hsTicks, hsMain, hsMsgs, hsVotes, hsProposals>>

HsNext ==
    \/ MainLooks \/ MainProposes \/ MainBroadcasts \/ MainVotes
    \/ HandleProposal \/ TimerReads \/ TimerWrites

HsSpec == HsInit /\ [][HsNext]_hsVars

(* The node makes at most as many proposals as the unread vote channel has  *)
(* slots, and one more that never returns: the main loop then stands still  *)
(* for good while views go on.  Views go on at every second tick only, as   *)
(* the timer remembers the view from before its own change.                 *)
ProposalsRunOut ==
    /\ hsProposals <= VoteSlots + 1
    /\ hsProposals = hsVotes + IF hsMain.at \in {"loop", "propose"} THEN 0 ELSE 1
    /\ hsTimer.at = "wait" => hsView = ((hsTicks + 1) \div 2) % HsValidators
=============================================================================
