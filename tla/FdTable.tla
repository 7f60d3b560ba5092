------------------------------ MODULE FdTable ------------------------------
(***************************************************************************)
(* What the descriptor hooks promise of the owner binding: a descriptor    *)
(* the application can use has the owner its last creation or connect()    *)
(* gave it, whatever other threads open, alias and close meanwhile, and    *)
(* one it cannot use has none.                                             *)
(***************************************************************************)
CONSTANTS Fds, Threads, NoOwner

VARIABLES
  open,   \* descriptors the application can use
  bound   \* descriptor -> owner thread, or NoOwner

tvars == <<open, bound>>

TInit ==
  /\ open = {}
  /\ bound = [f \in Fds |-> NoOwner]

\* socket() on thread t gave descriptor f.
Create(f, t) ==
  /\ f \notin open
  /\ open' = open \cup {f}
  /\ bound' = [bound EXCEPT ![f] = t]

\* dup(), dup2(), accept() made f from s.
Alias(f, s) ==
  /\ f \notin open
  /\ s \in open
  /\ open' = open \cup {f}
  /\ bound' = [bound EXCEPT ![f] = bound[s]]

\* connect() on thread t.
Rebind(f, t) ==
  /\ f \in open
  /\ bound' = [bound EXCEPT ![f] = t]
  /\ UNCHANGED open

\* close(), or the implicit close of dup2()'s target.
Shut(f) ==
  /\ f \in open
  /\ open' = open \ {f}
  /\ bound' = [bound EXCEPT ![f] = NoOwner]

TNext ==
  \/ \E f \in Fds, t \in Threads : Create(f, t) \/ Rebind(f, t)
  \/ \E f, s \in Fds : Alias(f, s)
  \/ \E f \in Fds : Shut(f)

TSpec == TInit /\ [][TNext]_tvars
=============================================================================
