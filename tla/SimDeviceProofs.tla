--------------------------- MODULE SimDeviceProofs ----------------------------
(***************************************************************************)
(* For any number of callers and all timeouts and fault masks: no answer of *)
(* the simulated device is claimed twice, detach leaves no callback behind  *)
(* that would follow sc->sim, and, if every caller cleans up after a        *)
(* timeout, no completion is ever due for a command that was given up.      *)
(***************************************************************************)
EXTENDS SimDevice, TLAPS

LEMMA SimTypeInit == Init => SimDeviceTypeOK
  <1> SUFFICES ASSUME Init PROVE SimDeviceTypeOK
    OBVIOUS
  <1>1. /\ pc \in [Callers -> {"user", "ready", "data"}]
        /\ polls \in [Callers -> Nat]
    BY DEF Init
  <1> QED
    BY <1>1 DEF Init, SimDeviceTypeOK

\* The registers, the simulation and the numbers of the device keep their types.
SimTypes ==
    /\ status \subseteq {"BUSY", "DATA_AV", "ERROR"}
    /\ fault_mask \in FaultMasks \cup {{}}
    /\ fault_prob \in {"never", "sometimes", "always"}
    /\ running \in BOOLEAN /\ command_pending \in BOOLEAN
    /\ pending_fault \in FaultMasks \cup {{}}
    /\ armed \subseteq {"sensor", "command", "busy"}
    /\ op_counter \in Nat /\ cmd_successes \in Nat /\ cmd_errors \in Nat
    /\ phase \in {"attached", "disabled", "draining", "detached"}

CallTypes ==
    pc \in [Callers -> {"user", "ready", "data"}] /\ polls \in [Callers -> Nat]

\* A caller goes to another place, or looks once more.
LEMMA CallMoves ==
    ASSUME CallTypes, NEW c \in Callers,
           \/ \E label \in {"user", "ready", "data"}, looks \in Nat :
                 AtCall(c, label, looks)
           \/ polls[c] > 0 /\ LookAgain(c)
           \/ UNCHANGED callVars
    PROVE  CallTypes'
  <1>1. ASSUME NEW label \in {"user", "ready", "data"}, NEW looks \in Nat,
               AtCall(c, label, looks)
        PROVE  CallTypes'
    BY <1>1 DEF AtCall, CallTypes
  <1>2. CASE polls[c] > 0 /\ LookAgain(c)
    <2>1. polls[c] - 1 \in Nat
      BY <1>2 DEF CallTypes
    <2> QED
      BY <1>2, <2>1 DEF LookAgain, CallTypes
  <1>3. CASE UNCHANGED callVars
    BY <1>3 DEF callVars, CallTypes
  <1> QED
    BY <1>1, <1>2, <1>3

LEMMA StartTypes ==
    ASSUME SimTypes, start_command,
           UNCHANGED <<regVars, statVars, phase>>
    PROVE  SimTypes'
  <1>1. CASE ~running \/ command_pending
    BY <1>1 DEF start_command, simVars, regVars, statVars, SimTypes
  <1>2. CASE ~(~running \/ command_pending)
    <2>1. /\ status' = (status \cup {"BUSY"}) \ {"DATA_AV"}
          /\ command_pending' = TRUE /\ running' = running
          /\ \/ UNCHANGED <<armed, pending_fault>>
             \/ /\ pending_fault' \in {fault_mask, {}}
                /\ armed' = armed \cup {"command"}
      BY <1>2 DEF start_command
    <2> QED
      BY <2>1 DEF regVars, statVars, SimTypes
  <1> QED
    BY <1>1, <1>2

LEMMA SimTypeNext == SimDeviceTypeOK /\ [Next]_vars => SimDeviceTypeOK'
  <1> SUFFICES ASSUME SimDeviceTypeOK, [Next]_vars PROVE SimDeviceTypeOK'
    OBVIOUS
  <1>0. SimTypes /\ CallTypes
    BY DEF SimDeviceTypeOK, SimTypes, CallTypes
  <1> SUFFICES SimTypes' /\ CallTypes'
    BY DEF SimDeviceTypeOK, SimTypes, CallTypes
  <1> USE <1>0 DEF regVars, simVars, statVars
  <1>1. ASSUME NEW c \in Callers, command_enter(c)
        PROVE  SimTypes' /\ CallTypes'
    <2>1. AtCall(c, "ready", ReadyPolls) /\ ReadyPolls \in Nat
      BY <1>1, SimDeviceAssumption DEF command_enter
    <2> QED
      BY <1>1, <2>1, CallMoves DEF command_enter, SimTypes
  <1>2. ASSUME NEW c \in Callers, wait_for_ready(c)
        PROVE  SimTypes' /\ CallTypes'
    <2>1. DataPolls - 1 \in Nat /\ 0 \in Nat
      BY SimDeviceAssumption
    <2>2. CallTypes'
      <3>1. \/ \E label \in {"user", "ready", "data"}, looks \in Nat :
                 AtCall(c, label, looks)
            \/ polls[c] > 0 /\ LookAgain(c)
        BY <1>2, <2>1 DEF wait_for_ready
      <3> QED
        BY <3>1, CallMoves
    <2>3. SimTypes'
      <3>1. CASE start_command
        BY <1>2, <3>1, StartTypes DEF wait_for_ready
      <3>2. CASE UNCHANGED <<status, simVars>>
        BY <1>2, <3>2 DEF wait_for_ready, SimTypes
      <3> QED
        BY <1>2, <3>1, <3>2 DEF wait_for_ready
    <2> QED
      BY <2>2, <2>3
  <1>3. ASSUME NEW c \in Callers, wait_for_data(c)
        PROVE  SimTypes' /\ CallTypes'
    <2>1. CallTypes'
      <3>1. \/ AtCall(c, "user", 0)
            \/ polls[c] > 0 /\ LookAgain(c)
        BY <1>3 DEF wait_for_data
      <3> QED
        BY <3>1, CallMoves
    <2>2. UNCHANGED <<regVars, op_counter, phase>>
      BY <1>3 DEF wait_for_data
    <2>3. CASE take_answer(c) /\ UNCHANGED simVars
      <3>1. /\ status' \subseteq status
            /\ cmd_successes' \in {cmd_successes, cmd_successes + 1}
            /\ cmd_errors' \in {cmd_errors, cmd_errors + 1}
        BY <2>3 DEF take_answer
      <3> QED
        BY <2>1, <2>2, <2>3, <3>1 DEF SimTypes
    <2>4. CASE UNCHANGED <<cmd_successes, cmd_errors, status, simVars>>
      BY <2>1, <2>2, <2>4 DEF SimTypes
    <2>5. CASE UNCHANGED <<cmd_successes, cmd_errors>> /\ recover_from_stuck
      BY <2>1, <2>2, <2>5 DEF recover_from_stuck, SimTypes
    <2> QED
      BY <1>3, <2>1, <2>3, <2>4, <2>5 DEF wait_for_data, give_up
  <1>4. ASSUME UNCHANGED callVars PROVE CallTypes'
    BY <1>4 DEF callVars, CallTypes
  <1>5. CASE command_cb
    <2>1. /\ status' \subseteq status \cup {"ERROR", "DATA_AV"}
          /\ op_counter' \in {op_counter, op_counter + 1}
          /\ command_pending' \in BOOLEAN
          /\ pending_fault' \in {pending_fault, {}}
          /\ armed' \subseteq armed
          /\ UNCHANGED <<regVars, running, cmd_successes, cmd_errors, callVars,
                         phase>>
      BY <1>5 DEF command_cb, SimTypes
    <2> QED
      BY <1>4, <2>1 DEF SimTypes
  <1>6. CASE busy_cb
    BY <1>4, <1>6 DEF busy_cb, SimTypes
  <1>7. CASE reg_fault_mask_set \/ reg_fault_prob_set
    BY <1>4, <1>7 DEF reg_fault_mask_set, reg_fault_prob_set, SimTypes
  <1>8. CASE sim_enable \/ sim_disable \/ sim_detach \/ sim_free
    BY <1>4, <1>8 DEF sim_enable, sim_disable, sim_detach, sim_free, SimTypes
  <1>9. CASE UNCHANGED vars
    BY <1>4, <1>9 DEF vars, SimTypes
  <1> QED
    BY <1>1, <1>2, <1>3, <1>5, <1>6, <1>7, <1>8, <1>9 DEF Next, Call

\* Registers, simulation, counters and callers keep their types.
THEOREM SimDeviceType == Spec => []SimDeviceTypeOK
  BY SimTypeInit, SimTypeNext, PTL DEF Spec

------------------------------------------------------------------------------
(* No completion is claimed twice.                                           *)

Answers == IF "DATA_AV" \in status THEN 1 ELSE 0

\* A step that takes an answer away and counts it, or takes none and counts none.
LEMMA ClaimNext ==
    SimDeviceTypeOK /\ OneClaimPerCompletion /\ [Next]_vars
      => OneClaimPerCompletion'
  <1> SUFFICES ASSUME SimDeviceTypeOK, OneClaimPerCompletion, [Next]_vars
               PROVE  OneClaimPerCompletion'
    OBVIOUS
  <1>0. /\ op_counter \in Nat /\ cmd_successes \in Nat /\ cmd_errors \in Nat
        /\ cmd_successes + cmd_errors + Answers <= op_counter
    BY DEF SimDeviceTypeOK, OneClaimPerCompletion, Answers
  <1> SUFFICES cmd_successes' + cmd_errors' + Answers' <= op_counter'
    BY DEF OneClaimPerCompletion, Answers
  <1>1. ASSUME "DATA_AV" \in status' => "DATA_AV" \in status,
               UNCHANGED <<op_counter, cmd_successes, cmd_errors>>
        PROVE  cmd_successes' + cmd_errors' + Answers' <= op_counter'
    BY <1>0, <1>1 DEF Answers
  <1>2. ASSUME NEW c \in Callers, wait_for_data(c)
        PROVE  cmd_successes' + cmd_errors' + Answers' <= op_counter'
    <2>1. CASE "DATA_AV" \in status /\ take_answer(c)
      <3>1. Answers = 1 /\ Answers' = 0 /\ op_counter' = op_counter
        BY <1>2, <2>1 DEF wait_for_data, take_answer, Answers
      <3>2. \/ cmd_successes' = cmd_successes /\ cmd_errors' = cmd_errors
            \/ cmd_successes' = cmd_successes + 1 /\ cmd_errors' = cmd_errors
            \/ cmd_successes' = cmd_successes /\ cmd_errors' = cmd_errors + 1
        BY <2>1 DEF take_answer
      <3> QED
        BY <1>0, <3>1, <3>2
    <2>2. CASE /\ status' \subseteq status
               /\ UNCHANGED <<cmd_successes, cmd_errors>>
      BY <1>1, <1>2, <2>2 DEF wait_for_data
    <2>3. \/ "DATA_AV" \in status /\ take_answer(c)
          \/ status' \subseteq status /\ UNCHANGED <<cmd_successes, cmd_errors>>
      BY <1>2 DEF wait_for_data, give_up, recover_from_stuck
    <2> QED
      BY <2>1, <2>2, <2>3
  <1>3. ASSUME NEW c \in Callers, wait_for_ready(c)
        PROVE  cmd_successes' + cmd_errors' + Answers' <= op_counter'
    <2>1. "DATA_AV" \in status' => "DATA_AV" \in status
      BY <1>3 DEF wait_for_ready, start_command
    <2> QED
      BY <1>1, <1>3, <2>1 DEF wait_for_ready, statVars
  <1>4. CASE command_cb
    <2>1. cmd_successes' = cmd_successes /\ cmd_errors' = cmd_errors
      BY <1>4 DEF command_cb
    <2>2. \/ op_counter' = op_counter /\ status' = status
          \/ op_counter' = op_counter + 1
      BY <1>4 DEF command_cb
    <2>3. Answers \in {0, 1} /\ Answers' \in {0, 1}
      BY DEF Answers
    <2>4. status' = status => Answers' = Answers
      BY DEF Answers
    <2> QED
      BY <1>0, <2>1, <2>2, <2>3, <2>4
  <1>5. CASE busy_cb
    BY <1>1, <1>5 DEF busy_cb, statVars
  <1>6. ASSUME NEW c \in Callers, command_enter(c)
        PROVE  UNCHANGED <<status, statVars>>
    BY <1>6 DEF command_enter
  <1>7. CASE \/ reg_fault_mask_set \/ reg_fault_prob_set
             \/ sim_enable \/ sim_disable \/ sim_detach \/ sim_free
    BY <1>1, <1>7 DEF reg_fault_mask_set, reg_fault_prob_set, sim_enable,
                      sim_disable, sim_detach, sim_free, statVars
  <1>8. CASE UNCHANGED vars
    BY <1>1, <1>8 DEF vars, statVars
  <1> QED
    BY <1>1, <1>2, <1>3, <1>4, <1>5, <1>6, <1>7, <1>8 DEF Next, Call, statVars

\* However many calls wait for DATA_AV, and whether they clean up or not: each
\* completion of myfirst_sim_command_cb() is counted by at most one write.
THEOREM SimDeviceOneClaim == Spec => []OneClaimPerCompletion
  <1>1. Init => OneClaimPerCompletion
    BY DEF Init, OneClaimPerCompletion
  <1> QED
    BY <1>1, SimTypeInit, SimTypeNext, ClaimNext, PTL DEF Spec

------------------------------------------------------------------------------
(* Detach leaves no callback behind.                                         *)

\* Once the simulation is disabled it is quiet, and nobody is left to start it.
StoppedMeansQuiet ==
    phase # "attached" =>
        armed = {} /\ ~running /\ \A c \in Callers : pc[c] = "user"

LEMMA QuietNext ==
    SimDeviceTypeOK /\ StoppedMeansQuiet /\ [Next]_vars => StoppedMeansQuiet'
  <1> SUFFICES ASSUME SimDeviceTypeOK, StoppedMeansQuiet, [Next]_vars,
                      phase' # "attached"
               PROVE  armed' = {} /\ ~running'
                        /\ \A c \in Callers : pc'[c] = "user"
    BY DEF StoppedMeansQuiet
  <1>1. CASE sim_disable
    BY <1>1 DEF sim_disable, callVars
  <1>2. CASE phase = "attached" /\ ~sim_disable
    <2>1. phase' = phase
      BY <1>2 DEF Next, Call, command_enter, wait_for_ready, wait_for_data,
                  command_cb, busy_cb, reg_fault_mask_set, reg_fault_prob_set,
                  sim_enable, sim_detach, sim_free, vars
    <2> QED
      BY <1>2, <2>1
  <1>3. CASE phase # "attached"
    <2>1. armed = {} /\ ~running /\ \A c \in Callers : pc[c] = "user"
      BY <1>3 DEF StoppedMeansQuiet
    <2>2. sim_detach \/ sim_free \/ UNCHANGED vars
      BY <1>3, <2>1
      DEF Next, Call, command_enter, wait_for_ready, wait_for_data, command_cb,
          busy_cb, reg_fault_mask_set, reg_fault_prob_set, sim_enable,
          sim_disable
    <2> QED
      BY <2>1, <2>2 DEF sim_detach, sim_free, simVars, callVars, vars
  <1> QED
    BY <1>1, <1>2, <1>3

\* myfirst_sim_disable() comes when the device node is gone and every call has
\* returned, so nothing arms a callout of the simulation again before
\* myfirst_sim_detach() clears sc->sim and frees what the callbacks use.
THEOREM SimDeviceCallbacks == Spec => []CallbacksFindTheirSim
  <1>1. Init => StoppedMeansQuiet
    BY DEF Init, StoppedMeansQuiet
  <1>2. StoppedMeansQuiet => CallbacksFindTheirSim
    BY DEF StoppedMeansQuiet, CallbacksFindTheirSim
  <1> QED
    BY <1>1, <1>2, SimTypeInit, SimTypeNext, QuietNext, PTL DEF Spec

------------------------------------------------------------------------------
(* The books of a command.                                                   *)

LEMMA AccountNext ==
    ASSUME Samplers = {}
    PROVE  SimDeviceTypeOK /\ CommandAccounted /\ [Next]_vars
             => CommandAccounted'
  <1> SUFFICES ASSUME SimDeviceTypeOK, CommandAccounted, [Next]_vars
               PROVE  CommandAccounted'
    OBVIOUS
  <1>1. /\ command_pending => /\ "BUSY" \in status /\ "DATA_AV" \notin status
                              /\ \E c \in Callers : pc[c] = "data"
        /\ "command" \in armed => command_pending
    BY DEF CommandAccounted
  <1>2. pc \in [Callers -> {"user", "ready", "data"}]
    BY DEF SimDeviceTypeOK
  <1>3. ASSUME command_pending' => command_pending,
               "BUSY" \in status => "BUSY" \in status',
               "DATA_AV" \in status' => "DATA_AV" \in status,
               \A c \in Callers : pc[c] = "data" => pc'[c] = "data",
               "command" \in armed' => "command" \in armed,
               command_pending => command_pending'
        PROVE  CommandAccounted'
    BY <1>1, <1>3 DEF CommandAccounted
  <1>4. ASSUME ~command_pending', "command" \notin armed'
        PROVE  CommandAccounted'
    BY <1>4 DEF CommandAccounted
  <1>5. ASSUME NEW c \in Callers, wait_for_ready(c) PROVE CommandAccounted'
    <2>1. \A d \in Callers : pc[d] = "data" => pc'[d] = "data"
      BY <1>2, <1>5 DEF wait_for_ready, AtCall, LookAgain
    <2>2. CASE UNCHANGED <<status, simVars>>
      BY <1>3, <2>1, <2>2 DEF simVars
    <2>3. CASE start_command /\ ~(~running \/ command_pending)
                 /\ AtCall(c, "data", DataPolls - 1)
      <3>1. pc'[c] = "data"
        BY <1>2, <2>3 DEF AtCall
      <3>2. command_pending' /\ "BUSY" \in status' /\ "DATA_AV" \notin status'
        BY <2>3 DEF start_command
      <3> QED
        BY <3>1, <3>2 DEF CommandAccounted
    <2> QED
      BY <1>5, <2>2, <2>3 DEF wait_for_ready, start_command
  <1>6. ASSUME NEW c \in Callers, wait_for_data(c) PROVE CommandAccounted'
    <2>1. CASE recover_from_stuck
      BY <1>4, <2>1 DEF recover_from_stuck
    <2>2. CASE "DATA_AV" \in status /\ UNCHANGED simVars
      <3>1. ~command_pending /\ "command" \notin armed
        BY <1>1, <2>2
      <3> QED
        BY <1>4, <2>2, <3>1 DEF simVars
    <2>3. CASE LookAgain(c) /\ UNCHANGED <<status, simVars>>
      BY <1>3, <2>3 DEF LookAgain, simVars
    <2> QED
      BY <1>6, <2>1, <2>2, <2>3 DEF wait_for_data, give_up
  <1>7. CASE command_cb
    <2>1. CASE ~running \/ ~command_pending
      BY <1>3, <1>7, <2>1 DEF command_cb, callVars
    <2>2. CASE ~(~running \/ ~command_pending)
      BY <1>4, <1>7, <2>2 DEF command_cb
    <2> QED
      BY <2>1, <2>2
  <1>8. CASE busy_cb
    <2>1. UNCHANGED <<command_pending, pc>>
            /\ status \subseteq status' /\ status' \subseteq status \cup {"BUSY"}
            /\ armed' \subseteq armed
      BY <1>8 DEF busy_cb, callVars
    <2> QED
      BY <1>3, <2>1
  <1>9. ASSUME NEW c \in Callers, command_enter(c) PROVE CommandAccounted'
    <2>1. \A d \in Callers : pc[d] = "data" => pc'[d] = "data"
      BY <1>2, <1>9 DEF command_enter, AtCall
    <2> QED
      BY <1>3, <1>9, <2>1 DEF command_enter, simVars
  <1>10. CASE \/ reg_fault_mask_set \/ reg_fault_prob_set
              \/ sim_enable \/ sim_disable \/ sim_detach \/ sim_free
    <2>1. UNCHANGED <<status, command_pending, pc>>
            /\ ("command" \in armed' => "command" \in armed)
      BY <1>10 DEF reg_fault_mask_set, reg_fault_prob_set, sim_enable,
                   sim_disable, sim_detach, sim_free, simVars, callVars
    <2> QED
      BY <1>3, <2>1
  <1>11. CASE UNCHANGED vars
    BY <1>3, <1>11 DEF vars, simVars, callVars
  <1> QED
    BY <1>5, <1>6, <1>7, <1>8, <1>9, <1>10, <1>11 DEF Next, Call

\* If every caller recovers from its timeout, a pending command has a caller who
\* waits for it, the device shows BUSY and no answer, and no late completion can
\* answer the next command, with any number of callers and under all faults.
THEOREM SimDeviceCommandAccounted ==
    ASSUME Samplers = {}
    PROVE  Spec => []CommandAccounted
  <1>1. Init => CommandAccounted
    BY DEF Init, CommandAccounted
  <1> QED
    BY <1>1, SimTypeInit, SimTypeNext, AccountNext, PTL DEF Spec
==============================================================================
