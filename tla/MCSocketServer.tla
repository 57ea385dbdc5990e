--------------------------- MODULE MCSocketServer ---------------------------
(* Values for model checking SocketServer. *)
EXTENDS SocketServer, TLC

CONSTANTS c1, c2, c3, c4, n1, n2

\* The server after two clients have come and gone, and nothing was broadcast since:
\* their writers are still registered.
Gone == {c3, c4}
LateInit ==
    /\ stored = {} /\ read = {} /\ dismissed = {}
    /\ arrival = [n \in Note |-> "new"] /\ closing = [n \in Note |-> "no"]
    /\ channel = <<>> /\ overrun = FALSE
    /\ task = ReceivingTask
    /\ writers = <<c3, c4>> /\ listening = TRUE
    /\ conn = [c \in Client |-> IF c \in Gone THEN "closed" ELSE "away"]
    /\ handler = [c \in Client |-> EndedHandler]
    /\ inbox = [c \in Client |-> <<>>] /\ view = [c \in Client |-> EmptyView]
    /\ dnd_mode = "Off" /\ requests = 0 /\ mirrors = 0
    /\ log = <<>> /\ forwarded = 0
    /\ start = [c \in Client |-> 0] /\ got = [c \in Client |-> <<>>]
    /\ disputed = {} /\ mode_disputed = FALSE
    /\ overtaken = [c \in Client |-> {}] /\ missed = [c \in Client |-> {}]

LateLiveSpec == LateInit /\ [][Next]_vars /\ Fairness

Symmetric == Permutations(Client) \cup Permutations(Note \ Big)
=============================================================================
