------------------------------- MODULE SimNet -------------------------------
(***************************************************************************)
(* The simulated net (ethp2p-sim/src/net.rs, state.rs, clock.rs): a        *)
(* discrete-event heap of deliveries and wakeups, and a plan of faults.  A *)
(* hub is a record:                                                        *)
(*   now, next_seq  virtual time, and the number of the next entry         *)
(*   heap           the pending entries                                    *)
(*   inbox          per endpoint, the events its engine has not taken      *)
(*   rules, rng     FaultPlan: its rules in order, and the draws the       *)
(*                  seeded generator will make; after these it draws 1     *)
(*   dropped        history: the frames classify dropped                   *)
(*   arrived        history: per link, the number of the last arrival      *)
(*   woken          how many sleeps have fired                             *)
(* A rule is [src, dst, action] with the fields its action needs; its      *)
(* predicate is a set of frame kinds and, for chunks, a set of indices.    *)
(***************************************************************************)
EXTENDS Integers, Sequences, SequencesExt, TLC

CONSTANTS Peers

NewSimHub(rules, rng) ==
  [now |-> 0, next_seq |-> 0, heap |-> {}, inbox |-> [p \in Peers |-> <<>>],
   rules |-> rules, rng |-> rng, dropped |-> {},
   arrived |-> [link \in Peers \X Peers |-> -1], woken |-> 0]

(* into_event. *)
IntoEvent(src, frame) == [x \in (DOMAIN frame \ {"to"}) \cup {"peer"} |->
                            IF x = "peer" THEN src ELSE frame[x]]

-----------------------------------------------------------------------------
(* FaultPlan::classify.  The next draw: 0 falls under every probability. *)
Draw(c) == IF c.rng = <<>> THEN 1 ELSE Head(c.rng)
Drawn(c) == [c EXCEPT !.rng = IF c.rng = <<>> THEN <<>> ELSE Tail(c.rng)]
Matches(rule, frame) ==
  frame.kind \in rule.kinds /\ (frame.kind = "chunk" => frame.chunk_id \in rule.ids)

(* One rule of the frame's link. *)
Apply(c, rule, now, frame) ==
  CASE rule.action = "partition" ->
         IF rule.from <= now /\ now < rule.until THEN [c EXCEPT !.drop = TRUE] ELSE c
    [] rule.action = "drop_if" ->
         IF Matches(rule, frame) THEN [c EXCEPT !.drop = TRUE] ELSE c
    [] rule.action = "drop_with_probability" -> [Drawn(c) EXCEPT !.drop = (Draw(c) = 0)]
    [] rule.action = "delay_if" ->
         IF Matches(rule, frame) THEN [c EXCEPT !.delay = @ + rule.delay] ELSE c
    [] rule.action = "delay_jitter" ->
         [Drawn(c) EXCEPT !.delay = @ + (Draw(c) % (rule.max + 1))]

RECURSIVE Classify(_, _, _, _, _)
(* The rules of the link in insertion order; a drop ends the evaluation. *)
Classify(c, rules, now, src, frame) ==
  IF c.drop \/ rules = <<>> THEN c
  ELSE LET rule == Head(rules)
           onLink == rule.src = src /\ rule.dst = frame.to
       IN Classify(IF onLink THEN Apply(c, rule, now, frame) ELSE c, Tail(rules), now, src, frame)

(* FaultPlan::partition. *)
Partition(a, b, from, until) ==
  <<[src |-> a, dst |-> b, action |-> "partition", from |-> from, until |-> until],
    [src |-> b, dst |-> a, action |-> "partition", from |-> from, until |-> until]>>

-----------------------------------------------------------------------------
Scheduled(hub, entry, delay) ==
  [hub EXCEPT !.heap = @ \cup {[at |-> hub.now + delay, seq |-> hub.next_seq] @@ entry},
              !.next_seq = @ + 1]

(* submit_send: SessionReconstructed goes nowhere, and no chunk is ever *)
(* acknowledged.                                                        *)
SubmitSend(hub, src, frame) ==
  IF frame.kind = "reconstructed" THEN hub
  ELSE LET c == Classify([drop |-> FALSE, delay |-> 0, rng |-> hub.rng],
                         hub.rules, hub.now, src, frame)
           drawn == [hub EXCEPT !.rng = c.rng]
       IN IF c.drop
          THEN [drawn EXCEPT !.next_seq = @ + 1,
                             !.dropped = @ \cup {<<src, frame>>}]
          ELSE Scheduled(drawn, [dst |-> frame.to, event |-> IntoEvent(src, frame)], c.delay)

(* SimClock::sleep. *)
Sleep(hub, delay) == Scheduled(hub, [wakeup |-> TRUE], delay)

(* Mutant: simultaneous entries leave in the reverse order of their enqueuing. *)
PopsBeforeLifo(a, b) == a.at < b.at \/ (a.at = b.at /\ a.seq > b.seq)

(* Entry::cmp: earliest first, in the order of enqueuing. *)
PopsBefore(a, b) == a.at < b.at \/ (a.at = b.at /\ a.seq < b.seq)
Earliest(hub) ==
  CHOOSE e \in hub.heap : \A f \in hub.heap : e = f \/ PopsBefore(e, f)
IsDelivery(entry) == "event" \in DOMAIN entry

(* pop_next, on a heap that is not empty. *)
PopNext(hub) ==
  LET entry == Earliest(hub)
      popped == [hub EXCEPT !.heap = @ \ {entry}, !.now = entry.at]
  IN IF IsDelivery(entry)
     THEN [popped EXCEPT !.inbox[entry.dst] = Append(@, entry.event),
                         !.arrived[<<entry.event.peer, entry.dst>>] = entry.seq]
     ELSE [popped EXCEPT !.woken = @ + 1]

(* Mutant: the clock is set and the entries that are due stay. *)
AdvanceToOnly(hub, target) == [hub EXCEPT !.now = IF target > @ THEN target ELSE @]

RECURSIVE AdvanceTo(_, _)
(* advance_to: what is due is popped in order, then the clock is set. *)
AdvanceTo(hub, target) ==
  IF hub.heap # {} /\ Earliest(hub).at <= target THEN AdvanceTo(PopNext(hub), target)
  ELSE [hub EXCEPT !.now = IF target > @ THEN target ELSE @]

RECURSIVE PumpAll(_)
(* SimNetHub::pump_all. *)
PumpAll(hub) == IF hub.heap = {} THEN hub ELSE PumpAll(PopNext(hub))

(* record_engine_step takes a number, too. *)
RecordEngineStep(hub) == [hub EXCEPT !.next_seq = @ + 1]
=============================================================================
