------------------------------- MODULE SimDevice -------------------------------
(***************************************************************************)
(* The simulated device of Chapter 17 and the driver's command cycle: a     *)
(* STATUS register that three callouts change, commands that complete late, *)
(* in error or never, and callers that poll with a timeout and clean up     *)
(* after one.                                                               *)
(*                                                                          *)
(* Everything but the pauses of the polls runs under sc->mtx, the callbacks *)
(* included: a step is what happens between two of them.  A millisecond of  *)
(* polling is one look; DELAY_MS is the order in which callouts and looks   *)
(* happen to come.  The bytes are left out, and with them the READ_1S fault *)
(* (a completion with other data).                                          *)
(***************************************************************************)
EXTENDS Integers, FiniteSets

CONSTANTS Callers,     \* threads in myfirst_write_cmd() or myfirst_sample_cmd()
          Samplers,    \* those in the latter, which does not recover
          ReadyPolls,  \* rdy_timeout_ms
          DataPolls,   \* cmd_timeout_ms
          FaultMasks,  \* what is written to FAULT_MASK
          MaxCommands  \* bound: no call begins after so many completions

ASSUME SimDeviceAssumption ==
    /\ Samplers \subseteq Callers
    /\ ReadyPolls \in Nat \ {0} /\ DataPolls \in Nat \ {0} /\ MaxCommands \in Nat
    /\ FaultMasks \subseteq SUBSET {"TIMEOUT", "ERROR", "STUCK_BUSY"}

VARIABLES
    status, fault_mask, fault_prob,          \* registers
    running, command_pending, pending_fault, \* struct myfirst_sim
    armed,       \* its callouts that are scheduled
    op_counter, cmd_successes, cmd_errors,
    pc, polls,   \* each caller: the wait it is in, and the looks it has left
    phase        \* of attach and detach

regVars == <<fault_mask, fault_prob>>
simVars == <<running, command_pending, pending_fault, armed>>
statVars == <<op_counter, cmd_successes, cmd_errors>>
callVars == <<pc, polls>>
vars == <<status, regVars, simVars, statVars, callVars, phase>>

\* myfirst_sim_attach() is done and the device node exists.
Init ==
    /\ status = {} /\ fault_mask = {} /\ fault_prob = "never"
    /\ running = FALSE /\ command_pending = FALSE /\ pending_fault = {}
    /\ armed = {}
    /\ op_counter = 0 /\ cmd_successes = 0 /\ cmd_errors = 0
    /\ pc = [c \in Callers |-> "user"] /\ polls = [c \in Callers |-> 0]
    /\ phase = "attached"

------------------------------------------------------------------------------
(* The device.                                                              *)

should_fault == CASE fault_prob = "never"  -> {FALSE}
                  [] fault_prob = "always" -> {TRUE}
                  [] OTHER                 -> BOOLEAN

\* The device of a driver that is not running, or that has a command pending,
\* ignores CTRL.GO; a TIMEOUT fault schedules no completion.
start_command ==
    IF ~running \/ command_pending
      THEN UNCHANGED <<status, simVars>>
      ELSE /\ status' = (status \cup {"BUSY"}) \ {"DATA_AV"}
           /\ command_pending' = TRUE
           /\ \E fault \in IF fault_mask = {} THEN {FALSE} ELSE should_fault :
                IF fault /\ "TIMEOUT" \in fault_mask
                  THEN UNCHANGED <<armed, pending_fault>>
                  ELSE /\ pending_fault' = IF fault THEN fault_mask ELSE {}
                       /\ armed' = armed \cup {"command"}
           /\ UNCHANGED running

\* A callout that is not periodic is no longer scheduled when it runs.
command_cb ==
    /\ "command" \in armed
    /\ armed' = armed \ {"command"}
    /\ IF ~running \/ ~command_pending
         THEN UNCHANGED <<status, command_pending, pending_fault, op_counter>>
         ELSE /\ status' = (status \ {"BUSY"}) \cup
                             (IF "ERROR" \in pending_fault THEN {"ERROR"} ELSE {"DATA_AV"})
              /\ op_counter' = op_counter + 1
              /\ command_pending' = FALSE /\ pending_fault' = {}
    /\ UNCHANGED <<regVars, running, cmd_successes, cmd_errors, callVars, phase>>

\* The busy callout schedules itself again, and so does the sensor callout,
\* whose register nothing here reads.
busy_cb ==
    /\ "busy" \in armed
    /\ armed' = IF running THEN armed ELSE armed \ {"busy"}
    /\ status' = IF running /\ "STUCK_BUSY" \in fault_mask
                   THEN status \cup {"BUSY"} ELSE status
    /\ UNCHANGED <<regVars, running, command_pending, pending_fault, statVars, callVars, phase>>

\* myfirst_hw_sysctl_reg_write(), for the two registers that inject faults.
reg_fault_mask_set ==
    /\ phase = "attached"
    /\ fault_mask' \in FaultMasks
    /\ UNCHANGED <<status, fault_prob, simVars, statVars, callVars, phase>>

reg_fault_prob_set ==
    /\ phase = "attached"
    /\ fault_prob' \in {"never", "sometimes", "always"}
    /\ UNCHANGED <<status, fault_mask, simVars, statVars, callVars, phase>>

------------------------------------------------------------------------------
(* The command cycle.                                                       *)

AtCall(c, label, looks) ==
    pc' = [pc EXCEPT ![c] = label] /\ polls' = [polls EXCEPT ![c] = looks]

LookAgain(c) == polls' = [polls EXCEPT ![c] = @ - 1] /\ UNCHANGED pc

\* A write(2) sends a byte, or a read(2) of an empty ring asks for a sample.
command_enter(c) ==
    /\ pc[c] = "user" /\ phase = "attached" /\ op_counter < MaxCommands
    /\ AtCall(c, "ready", ReadyPolls)
    /\ UNCHANGED <<status, regVars, simVars, statVars, phase>>

\* The look that finds the device ready goes on to CTRL.GO without dropping
\* the lock, and to the first look at DATA_AV, which is in vain: the device has
\* just lowered it, or was not yet running and has never raised it.
wait_for_ready(c) ==
    /\ pc[c] = "ready"
    /\ IF polls[c] > 0
         THEN IF "BUSY" \in status
                THEN LookAgain(c) /\ UNCHANGED <<status, simVars>>
                ELSE start_command /\ AtCall(c, "data", DataPolls - 1)
         ELSE AtCall(c, "user", 0) /\ UNCHANGED <<status, simVars>>
    /\ UNCHANGED <<regVars, statVars, phase>>

\* Slip: the late completion stays scheduled.
recover_without_stop ==
    /\ command_pending' = FALSE
    /\ status' = status \ {"BUSY", "DATA_AV"}
    /\ UNCHANGED <<armed, running, pending_fault>>

\* Slip: only the register is cleaned.
recover_status_only ==
    /\ status' = status \ {"BUSY", "DATA_AV"}
    /\ armed' = armed \ {"command"}
    /\ UNCHANGED <<command_pending, running, pending_fault>>

recover_from_stuck ==
    /\ command_pending' = FALSE
    /\ armed' = armed \ {"command"}
    /\ status' = status \ {"BUSY", "DATA_AV"}
    /\ UNCHANGED <<running, pending_fault>>

\* Slip: DATA_AV is left up.
take_answer_latched(c) ==
    /\ status' = IF c \in Samplers THEN status ELSE status \ {"ERROR"}
    /\ IF c \in Samplers
         THEN UNCHANGED <<cmd_successes, cmd_errors>>
         ELSE IF "ERROR" \in status
                THEN cmd_errors' = cmd_errors + 1 /\ UNCHANGED cmd_successes
                ELSE cmd_successes' = cmd_successes + 1 /\ UNCHANGED cmd_errors

\* What follows a look that finds DATA_AV: a write also looks at ERROR.
take_answer(c) ==
    /\ status' = status \ (IF c \in Samplers THEN {"DATA_AV"} ELSE {"DATA_AV", "ERROR"})
    /\ IF c \in Samplers
         THEN UNCHANGED <<cmd_successes, cmd_errors>>
         ELSE IF "ERROR" \in status
                THEN cmd_errors' = cmd_errors + 1 /\ UNCHANGED cmd_successes
                ELSE cmd_successes' = cmd_successes + 1 /\ UNCHANGED cmd_errors

\* After the last pause the call gives up without another look.
give_up(c) ==
    IF c \in Samplers THEN UNCHANGED <<status, simVars>> ELSE recover_from_stuck

wait_for_data(c) ==
    /\ pc[c] = "data"
    /\ IF polls[c] > 0
         THEN IF "DATA_AV" \in status
                THEN take_answer(c) /\ AtCall(c, "user", 0) /\ UNCHANGED simVars
                ELSE LookAgain(c) /\ UNCHANGED <<status, simVars, cmd_successes, cmd_errors>>
         ELSE /\ give_up(c) /\ AtCall(c, "user", 0)
              /\ UNCHANGED <<cmd_successes, cmd_errors>>
    /\ UNCHANGED <<regVars, op_counter, phase>>

------------------------------------------------------------------------------
(* Attach and detach.                                                       *)

sim_enable ==
    /\ phase = "attached" /\ ~running
    /\ running' = TRUE
    /\ armed' = armed \cup {"sensor", "busy"}
    /\ UNCHANGED <<status, regVars, command_pending, pending_fault, statVars, callVars, phase>>

\* Slip: the busy callout, added last, is not stopped.
disable_without_busy ==
    /\ phase = "attached" /\ running
    /\ \A c \in Callers : pc[c] = "user"
    /\ running' = FALSE /\ armed' = armed \ {"sensor", "command"}
    /\ phase' = "disabled"
    /\ UNCHANGED <<status, regVars, command_pending, pending_fault, statVars, callVars>>

\* Detach has destroyed the device node and waited for the descriptors.
sim_disable ==
    /\ phase = "attached" /\ running
    /\ \A c \in Callers : pc[c] = "user"
    /\ running' = FALSE /\ armed' = {}
    /\ phase' = "disabled"
    /\ UNCHANGED <<status, regVars, command_pending, pending_fault, statVars, callVars>>

\* sc->sim = NULL
sim_detach ==
    /\ phase = "disabled"
    /\ phase' = "draining"
    /\ UNCHANGED <<status, regVars, simVars, statVars, callVars>>

\* callout_drain() of the three callouts, free() and myfirst_hw_detach().
sim_free ==
    /\ phase = "draining"
    /\ armed' = {}
    /\ phase' = "detached"
    /\ UNCHANGED <<status, regVars, running, command_pending, pending_fault, statVars, callVars>>

------------------------------------------------------------------------------
Call(c) == wait_for_ready(c) \/ wait_for_data(c)

Next ==
    \/ \E c \in Callers : command_enter(c) \/ Call(c)
    \/ command_cb \/ busy_cb
    \/ reg_fault_mask_set \/ reg_fault_prob_set
    \/ sim_enable \/ sim_disable \/ sim_detach \/ sim_free

Spec == Init /\ [][Next]_vars

\* A call polls to its end; nothing is assumed of the callouts, since a
\* completion may be any time away.
FairSpec == Spec /\ \A c \in Callers : WF_vars(Call(c))

\* The busy callout runs every 50 ms.
TickingSpec == FairSpec /\ WF_vars(busy_cb)

------------------------------------------------------------------------------
\* The types of the variables.
SimDeviceTypeOK ==
    /\ status \subseteq {"BUSY", "DATA_AV", "ERROR"}
    /\ fault_mask \in FaultMasks \cup {{}}
    /\ fault_prob \in {"never", "sometimes", "always"}
    /\ running \in BOOLEAN /\ command_pending \in BOOLEAN
    /\ pending_fault \in FaultMasks \cup {{}}
    /\ armed \subseteq {"sensor", "command", "busy"}
    /\ op_counter \in Nat /\ cmd_successes \in Nat /\ cmd_errors \in Nat
    /\ pc \in [Callers -> {"user", "ready", "data"}] /\ polls \in [Callers -> Nat]
    /\ phase \in {"attached", "disabled", "draining", "detached"}

\* A pending command shows as BUSY without an answer and has a caller in
\* wait_for_data(), who will take the answer or clean up; and no completion is
\* scheduled for a command that a timeout has already given up, so that the
\* next command never finds its answer.
CommandAccounted ==
    /\ command_pending => /\ "BUSY" \in status /\ "DATA_AV" \notin status
                          /\ \E c \in Callers : pc[c] = "data"
    /\ "command" \in armed => command_pending

\* Every completion is reported to at most one caller, however many wait for it
\* and whatever timeouts and faults come between: no write counts a success or
\* an error that the device did not produce for some command.
OneClaimPerCompletion ==
    cmd_successes + cmd_errors + (IF "DATA_AV" \in status THEN 1 ELSE 0) <= op_counter

\* No callback can run once detach has taken the simulation out of the softc:
\* callbacks follow sc->sim without looking whether it is NULL, and the
\* callout_drain() that would wait for them comes only afterwards.
CallbacksFindTheirSim == armed # {} => phase \in {"attached", "disabled"}

\* A pending command does not stay: it completes, or the timeout of a caller
\* clears it, even if the completion was never scheduled.
PendingEnds == command_pending ~> ~command_pending

\* What the lab sim_stuck_busy_fault.sh expects: once the fault is cleared, a
\* BUSY without a command goes away.  Nothing lowers a BUSY that the busy callout
\* raised: every later write gives up in wait_for_ready(), which does not
\* recover.
BusyClears ==
    "BUSY" \in status /\ ~command_pending /\ "STUCK_BUSY" \notin fault_mask
      ~> "BUSY" \notin status \/ "STUCK_BUSY" \in fault_mask \/ phase # "attached"

\* What the lab sim_error_fault.sh expects: a caller finds the error of its
\* command.  A completion in error raises no DATA_AV, and DATA_AV is all that
\* wait_for_data() looks at: the call times out, and ERROR stays for the next.
ErrorIsAnswered == "ERROR" \in status => "DATA_AV" \in status
==============================================================================
