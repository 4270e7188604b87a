---------------------------- MODULE X28Selection ----------------------------
(***************************************************************************)
(* The selection of an X.28 call command (src/x28/selection.rs):           *)
(*     facilities - addresses, then call user data after *, P or D         *)
(* A line is a sequence of characters, each a string of length one.  What  *)
(* the parser refuses has the empty set of results.                        *)
(***************************************************************************)
EXTENDS Naturals, SequencesExt

Digits == {"0", "1", "2", "3", "4", "5", "6", "7", "8", "9"}

Facility(name, value) == [name |-> name, value |-> value]
Full(digits) == [kind |-> "Full", addr |-> digits]
Abbrev(name) == [kind |-> "Abbrev", addr |-> name]

(* X121Addr::from_str *)
FullAddr(s) == IF Len(s) <= 15 /\ \A i \in DOMAIN s : s[i] \in Digits THEN {Full(s)} ELSE {}

(* s.find() from i on; one past the end if there is none. *)
Find(s, chars, i) ==
    CHOOSE j \in i .. Len(s) + 1 :
        /\ j <= Len(s) => s[j] \in chars
        /\ \A k \in i .. j - 1 : s[k] \notin chars

(* Slip: a facility runs up to the hyphen, commas and all. *)
FacilityEndHyphen(s, i) == Find(s, {"-"}, i)

FacilityEnd(s, i) == Find(s, {",", "-"}, i)

(* Facilities end at the first hyphen; a line that begins with a dot, or   *)
(* has no hyphen, has none.  An empty facility is skipped.                 *)
ParseFacilities(s) ==
    LET Items[i \in 1 .. Len(s)] ==
            LET end  == FacilityEnd(s, i)
                item == IF end = i THEN <<>>
                        ELSE <<Facility(s[i], SubSeq(s, i + 1, end - 1))>>
            IN  IF s[end] = "-" THEN [facilities |-> item, rest |-> end + 1]
                ELSE [Items[end + 1] EXCEPT !.facilities = item \o @]
    IN  IF s[1] = "." \/ ~Contains(s, "-") THEN [facilities |-> <<>>, rest |-> 1]
        ELSE Items[1]

(* What ends an address: after an abbreviated one P and D are letters. *)
AddrEnds(abbrev) == {",", "*"} \cup (IF abbrev THEN {} ELSE {"P", "D"})

(* Addresses from position i on, abbrev telling whether one of those       *)
(* before was abbreviated; rest is the position after the last of them.    *)
(* The character there is one of AddrEnds, so the code's check of the      *)
(* separator always succeeds.                                              *)
ParseAddrs(s, first) ==
    LET Addrs[i \in 1 .. Len(s) + 1, abbrev \in BOOLEAN] ==
            LET dot   == i <= Len(s) /\ s[i] = "."
                later == abbrev \/ dot
                end   == Find(s, AddrEnds(later), i)
                name  == SubSeq(s, IF dot THEN i + 1 ELSE i, end - 1)
                this  == CASE name = <<>> -> {<<>>}
                           [] name # <<>> /\ dot  -> {<<Abbrev(name)>>}
                           [] name # <<>> /\ ~dot -> {<<a>> : a \in FullAddr(name)}
            IN  IF end <= Len(s) /\ s[end] = ","
                THEN UNION {{[more EXCEPT !.addrs = a \o @] : more \in Addrs[end + 1, later]} :
                               a \in this}
                ELSE {[addrs |-> a, rest |-> end] : a \in this}
    IN  {found \in Addrs[first, FALSE] : found.addrs # <<>>}

Parse(s) ==
    IF s = <<>> THEN {}
    ELSE LET head == ParseFacilities(s)
         IN  {[facilities |-> head.facilities, addrs |-> found.addrs,
               call_user_data |-> SubSeq(s, found.rest + 1, Len(s))] :
                 found \in ParseAddrs(s, head.rest)}
=============================================================================
