--------------------------- MODULE MCFaultEngine ---------------------------
(* Small instances of FaultEngine for TLC. *)
EXTENDS FaultEngine, TLC

CONSTANTS t1, t2

\* Threads differ in nothing but their calls.
MCSymmetry == Permutations({t1, t2})

Nothing ==
  [ base |-> Zero, uplink |-> Zero, downlink |-> Zero,
    connect_timeout |-> 0, recv_timeout |-> 0,
    ge |-> [enabled |-> FALSE, loss_good |-> 0, loss_bad |-> 0],
    conn_err |-> 0, half_open_after_bytes |-> 0,
    dns |-> [timeout |-> 0, nxdomain |-> 0, delay |-> 0],
    session |-> [max_ops |-> 0, max_bytes_tx |-> 0, max_bytes_rx |-> 0,
                 max_duration |-> 0, action |-> "none"],
    schedule |-> "none" ]

\* Delays that grow, and a budget: calls are counted, then told to come back.
Budget ==
  [Nothing EXCEPT !.uplink = [Zero EXCEPT !.jitter = 1],
                  !.downlink = [Zero EXCEPT !.bandwidth = 1],
                  !.dns = [timeout |-> 0, nxdomain |-> Sometimes, delay |-> 0],
                  !.session = [max_ops |-> 2, max_bytes_tx |-> 3,
                               max_bytes_rx |-> 0, max_duration |-> 1,
                               action |-> "Drop"],
                  !.schedule = "ramp"]

\* A lossy link that comes and goes and is cut after two bytes.
Lossy ==
  [Nothing EXCEPT !.base = [Zero EXCEPT !.burst_loss_len = 2],
                  !.uplink = [Zero EXCEPT !.burst_loss_len = 3],
                  !.downlink = [Zero EXCEPT !.latency = 1],
                  !.ge = [enabled |-> TRUE, loss_good |-> 0,
                          loss_bad |-> Sometimes],
                  !.connect_timeout = 1,
                  !.dns = [timeout |-> 1, nxdomain |-> 0, delay |-> 0],
                  !.half_open_after_bytes = 2,
                  !.schedule = "window"]

MCConfigOf == [p \in {"budget", "lossy"} |-> IF p = "budget" THEN Budget ELSE Lossy]
============================================================================
