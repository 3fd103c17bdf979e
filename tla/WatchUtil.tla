----------------------------- MODULE WatchUtil -----------------------------
(***************************************************************************)
(* wwatch/Util.cc, on strings that are sequences of characters: wmain()    *)
(* splits the list of extensions, and handle() runs the command on a file  *)
(* whose name ends with one of them.                                       *)
(***************************************************************************)
EXTENDS Naturals, Sequences, SequencesExt

(* Mutant: the field behind the last delimiter is never added. *)
lastField_Never(result, current) == result

(* The test after the loop of split(). *)
lastField(result, current) ==
  IF current # <<>> THEN Append(result, current) ELSE result

(* The loop carries the fields collected and the one being collected. *)
split(str, delimiter) ==
  LET scan[i \in 0 .. Len(str)] ==
        IF i = 0 THEN [result |-> <<>>, current |-> <<>>]
        ELSE LET s == scan[i - 1]
             IN  IF str[i] = delimiter
                 THEN [result |-> Append(s.result, s.current), current |-> <<>>]
                 ELSE [result |-> s.result, current |-> Append(s.current, str[i])]
      end == scan[Len(str)]
  IN  lastField(end.result, end.current)

concat(args, separator) ==
  LET joined[i \in DOMAIN args] ==
        IF i = 1 THEN args[1] ELSE joined[i - 1] \o separator \o args[i]
  IN  IF args = <<>> THEN <<>> ELSE joined[Len(args)]

endsWith(str, suffix) ==
  /\ Len(str) >= Len(suffix)
  /\ SubSeq(str, Len(str) - Len(suffix) + 1, Len(str)) = suffix

=============================================================================
