----------------------------- MODULE X28Command -----------------------------
(***************************************************************************)
(* X.28 command lines (src/x28/command.rs).  A line is a sequence of       *)
(* tokens: a word in which only its being that word matters is one token,  *)
(* everything else is characters.  Err is the empty set of results.        *)
(***************************************************************************)
EXTENDS X28Selection

Command(kind, argument) == [kind |-> kind, argument |-> argument]
NoArgument == <<>>

(* to_uppercase, of the tokens that have a lower case here. *)
UpperCase == ("call" :> "CALL") @@ ("set" :> "SET") @@ ("rset?" :> "RSET?")
             @@ ("rpar?" :> "RPAR?") @@ ("a" :> "A") @@ ("p" :> "P")
Upper(line) == [i \in DOMAIN line |->
                   IF line[i] \in DOMAIN UpperCase THEN UpperCase[line[i]] ELSE line[i]]

Trim(line) ==
    LET ink == {i \in DOMAIN line : line[i] # " "}
    IN  IF ink = {} THEN <<>> ELSE SubSeq(line, Min(ink), Max(ink))

(* split(',') *)
Split(line) ==
    FoldLeft(LAMBDA parts, t : IF t = "," THEN Append(parts, <<>>)
                               ELSE Append(Front(parts), Append(Last(parts), t)),
             <<<<>>>>, line)

DigitValue(t) == CHOOSE n \in 0 .. 9 : t = ToString(n)

(* u8::from_str takes a plus sign and leading zeros. *)
ParseU8(word) ==
    LET digits == IF word # <<>> /\ word[1] = "+" THEN Tail(word) ELSE word
    IN  IF digits = <<>> \/ \E i \in DOMAIN digits : digits[i] \notin Digits THEN {}
        ELSE {FoldLeft(LAMBDA n, t : 10 * n + DigitValue(t), 0, digits)} \cap (0 .. 255)

ParsePair(part) ==
    LET colon == Find(part, {":"}, 1)
    IN  {<<p, v>> : p \in ParseU8(Trim(SubSeq(part, 1, colon - 1))),
                    v \in ParseU8(Trim(SubSeq(part, colon + 1, Len(part))))}

Parts(rest) == IF Trim(rest) = <<>> THEN <<>> ELSE Split(Trim(rest))

(* One list of all results, if no part is an error. *)
Collect(results) ==
    FoldLeft(LAMBDA lists, xs : {Append(l, x) : l \in lists, x \in xs}, {<<>>}, results)

ParseReadParams(rest) ==
    LET parts == Parts(rest)
    IN  Collect([i \in DOMAIN parts |-> ParseU8(Trim(parts[i]))])

(* Its callers refuse an empty list. *)
ParseSetParams(rest) ==
    LET parts == Parts(rest)
    IN  Collect([i \in DOMAIN parts |-> ParsePair(parts[i])]) \ {<<>>}

(* A line without a command word is a selection up to its first blank, in  *)
(* upper case.                                                             *)
FromLine(line) ==
    LET words == Trim(line)
        blank == Find(words, {" "}, 1)
        command == Upper(SubSeq(words, 1, blank - 1))
        rest == SubSeq(words, blank + 1, Len(words))
        Is(names) == \E name \in names : command = <<name>>
        Of(kind, arguments) == {Command(kind, a) : a \in arguments}
    IN  CASE Is({"CALL"})               -> Of("Selection", Parse(rest))
          [] Is({"CLR", "CLEAR"})       -> Of("Clear", {NoArgument})
          [] Is({"PAR?", "PAR", "PARAMETER", "READ"}) -> Of("Read", ParseReadParams(rest))
          [] Is({"SET"})                -> Of("Set", ParseSetParams(rest))
          [] Is({"SET?", "SETREAD"})    -> Of("SetRead", ParseSetParams(rest))
          [] Is({"RPAR?", "RREAD"})     -> Of("RemoteRead", ParseReadParams(rest))
          [] Is({"RSET?", "RSETREAD"})  -> Of("RemoteSetRead", ParseSetParams(rest))
          [] Is({"STAT", "STATUS"})     -> Of("Status", {NoArgument})
          [] Is({"ICLR", "ICLEAR"})     -> Of("InviteClear", {NoArgument})
          [] Is({"HELP"})               -> Of("Help", {rest})
          [] OTHER                      -> Of("Selection", Parse(command))
=============================================================================
