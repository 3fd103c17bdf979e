----------------------------- MODULE MCPipeline -----------------------------
(* Pipeline for TLC: the chain and the functions given to its stages. *)
EXTENDS Pipeline, TLC

Stage(kind, size) == [kind |-> kind, size |-> size]

(* The chain `b` of main(), buffer(2) >> window(2), and below it the other  *)
(* kinds of stage, with a buffer(0) that a reset does not reach.            *)
AllKinds == <<Stage("buffer", 2), Stage("window", 2), Stage("concat", 0),
              Stage("where", 0), Stage("select", 0), Stage("buffer", 0)>>

(* where() drops the first window, of a single batch; select() turns the    *)
(* others around.                                                           *)
PassesFull(v) == Len(v) > 1
Turned(v) == Reverse(v)

=============================================================================
