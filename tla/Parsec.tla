------------------------------- MODULE Parsec -------------------------------
(***************************************************************************)
(* The parser combinators of parsec.cc: ItemParser, EosParser and trees of *)
(* OrParser over a Stream, and the Result objects that travel between      *)
(* them.  A Result holds an item or an Error in a union; its destructor    *)
(* destroys the Error, and its copy constructor assigns to the member of   *)
(* the new union, which for an Error was never constructed.                *)
(***************************************************************************)
EXTENDS Naturals, Sequences, SequencesExt

CONSTANTS
  Chars,      \* the characters a stream is made of
  NoItem,     \* the 0 that is the item of EosParser
  Parsers,    \* records of kind "item", "eos" or "or", these with left and right
  Depth,      \* of a parser: an OrParser holds copies of the two it was made of
  MaxLength   \* bound: the length of the source

ASSUME ParserAssumption ==
  /\ MaxLength \in Nat /\ NoItem \notin Chars
  /\ \A p \in Parsers : /\ p.kind \in {"item", "eos", "or"}
                        /\ p.kind = "or" => {p.left, p.right} \subseteq Parsers
  /\ Depth \in [Parsers -> Nat]
  /\ \A p \in Parsers :
       p.kind = "or" => Depth[p.left] < Depth[p] /\ Depth[p.right] < Depth[p]

VARIABLES
  source,       \* the string the streams run over
  parser,       \* the parser main() runs, and
  from,         \*   the position of the stream it gives it
  op,           \* "call", "return"; "done" when the caller has the result, "used"
                \* or "caught" when it has asked it, "gone" with its end
  frames,       \* the RunParser() calls that are running, outermost first
  result,       \* the Result the last of them returned
  errors,       \* Errors constructed and not destroyed
  errorCopied   \* history: a Result with an Error was copied

vars == <<source, parser, from, op, frames, result, errors, errorCopied>>

Frame(p, at) == [parser |-> p, at |-> at, tried |-> "none"]
Success(item, at) == [hasError |-> FALSE, item |-> item, at |-> at]
Failure(at) == [hasError |-> TRUE, item |-> NoItem, at |-> at]

TypeOK ==
  /\ source \in Seq(Chars) /\ Len(source) <= MaxLength
  /\ parser \in Parsers /\ from \in 0 .. Len(source)
  /\ op \in {"call", "return", "done", "used", "caught", "gone"}
  /\ op \in {"call", "return"} <=> frames # <<>>
  /\ result.at \in 0 .. Len(source)
  /\ errors \in Nat /\ errorCopied \in BOOLEAN

Init ==
  /\ source \in BoundedSeq(Chars, MaxLength)
  /\ parser \in Parsers
  /\ from \in 0 .. Len(source)
  /\ op = "call"
  /\ frames = <<Frame(parser, from)>>
  /\ result = Success(NoItem, from)
  /\ errors = 0 /\ errorCopied = FALSE

-----------------------------------------------------------------------------
(* Stream: a position in the source. *)
end(at) == at = Len(source)
current(at) == source[at + 1]
next(at) == at + 1

At(kind) == op = "call" /\ Last(frames).parser.kind = kind

(* The innermost call returns r. *)
Return(r) ==
  /\ frames' = Front(frames)
  /\ op' = IF Len(frames) = 1 THEN "done" ELSE "return"
  /\ result' = r
  /\ UNCHANGED <<source, parser, from>>

(* Its result is constructed in the caller's place, an Error with it. *)
ReturnNew(r) ==
  /\ Return(r)
  /\ errors' = IF r.hasError THEN errors + 1 ELSE errors
  /\ UNCHANGED errorCopied

RunEos ==
  LET at == Last(frames).at
  IN  At("eos") /\ ReturnNew(IF end(at) THEN Success(NoItem, at) ELSE Failure(at))

RunItem ==
  LET at == Last(frames).at
  IN  At("item") /\ ReturnNew(IF end(at) THEN Failure(at)
                              ELSE Success(current(at), next(at)))

(* OrParser calls m_left, then m_right, on the stream it was given. *)
CallNext(which, p) ==
  /\ frames' = Append(Front(frames) \o <<[Last(frames) EXCEPT !.tried = which]>>,
                      Frame(p, Last(frames).at))
  /\ op' = "call"

RunOr ==
  /\ At("or")
  /\ CallNext("left", Last(frames).parser.left)
  /\ UNCHANGED <<source, parser, from, result, errors, errorCopied>>

(* Mutants: m_right is always called; it never is. *)
Decides_Never(leftResult) == FALSE
Decides_Always(leftResult) == TRUE

Decides(leftResult) == ~leftResult.hasError

(* A leftResult that decides is copied out.  One with an error lives on     *)
(* until RunParser() returns.                                               *)
LeftReturned ==
  /\ op = "return" /\ Last(frames).tried = "left"
  /\ IF Decides(result)
     THEN Return(result) /\ errorCopied' = (errorCopied \/ result.hasError)
     ELSE /\ CallNext("right", Last(frames).parser.right)
          /\ UNCHANGED <<source, parser, from, result, errorCopied>>
  /\ UNCHANGED errors

(* The result of m_right is in place; leftResult and its Error go. *)
RightReturned ==
  /\ op = "return" /\ Last(frames).tried = "right"
  /\ Return(result)
  /\ errors' = errors - 1
  /\ UNCHANGED errorCopied

(* What main() does with the result: item() throws if it has an error,      *)
(* error() if it has none and else returns a copy, which does not outlive   *)
(* the statement; then ~Result() runs.                                      *)
Use(throws) ==
  /\ op = "done" /\ op' = IF throws THEN "caught" ELSE "used"
  /\ UNCHANGED <<source, parser, from, frames, result, errors, errorCopied>>

CallItem == Use(result.hasError)
CallError == Use(~result.hasError)

Destroy ==
  /\ op \in {"used", "caught"} /\ op' = "gone"
  /\ errors' = IF result.hasError THEN errors - 1 ELSE errors
  /\ UNCHANGED <<source, parser, from, frames, result, errorCopied>>

Next ==
  \/ RunEos \/ RunItem \/ RunOr \/ LeftReturned \/ RightReturned
  \/ CallItem \/ CallError \/ Destroy
  \/ op = "gone" /\ UNCHANGED vars

Spec == Init /\ [][Next]_vars

-----------------------------------------------------------------------------
(* Properties. *)

(* The parsers that are no OrParser, in the order they are tried. *)
Attempts[p \in Parsers] ==
  IF p.kind = "or" THEN Attempts[p.left] \o Attempts[p.right] ELSE <<p>>

Accepts(p) == (p.kind = "eos") = end(from)

(* However the OrParsers are nested, the result is that of the first choice *)
(* that succeeds where the tree was started, whatever failed before it took *)
(* no input; it fails there if they all do.                                 *)
OrderedChoice ==
  op = "done" =>
    LET tries == Attempts[parser]
        taken == {i \in DOMAIN tries : Accepts(tries[i])}
    IN  result = IF taken = {} THEN Failure(from)
                 ELSE IF tries[Min(taken)].kind = "eos" THEN Success(NoItem, from)
                 ELSE Success(source[from + 1], from + 1)

(* Every Error is destroyed exactly once, by OrParser or, the one the       *)
(* caller receives, with the result, whether asking it threw or not; and    *)
(* the copy constructor never runs on a Result with an Error, where it      *)
(* would assign to an object that was not constructed (parsec.cc:53-82).    *)
ErrorLifetimes ==
  /\ ~errorCopied
  /\ op = "done" => errors = (IF result.hasError THEN 1 ELSE 0)
  /\ op = "gone" => errors = 0

=============================================================================
