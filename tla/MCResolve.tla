----------------------------- MODULE MCResolve ------------------------------
EXTENDS Resolve

a == <<"a">>
b == <<"b">>
nsRoot == <<"r">>
nsB == <<"b", "n">>

\* The root is signed, b is not, and a has its server in b.  Two replies may be lost
\* or damaged; one in the worlds of many choices, BothFamilies and the warm ones.
Base ==
  [zones |-> {Root, a, b}, signed |-> {Root, a}, optout |-> {}, unsupported |-> {},
   nsof |-> (Root :> nsRoot @@ a :> nsB @@ b :> nsB),
   rr |-> {<<nsRoot, "A">>, <<nsB, "A">>, <<<<"a", "x">>, "A">>, <<<<"b", "y">>, "A">>},
   cname |-> <<>>, anchors |-> {Root}, negative |-> {}, options |-> {"NO_IPV6"},
   question |-> <<<<"a", "x">>, "A">>, cd |-> FALSE, cuts |-> {}, cached |-> {},
   faults |-> 2]

\* The server of the root serves a too.
Shared == [Base EXCEPT !.nsof = (Root :> nsRoot @@ a :> nsRoot @@ b :> nsB)]
SharedNx == [Shared EXCEPT !.question = <<<<"a", "q">>, "A">>]
\* ... and b, which is not signed.
SharedInsecure == [Shared EXCEPT !.nsof = (Root :> nsRoot @@ a :> nsRoot @@ b :> nsRoot),
                                 !.question = <<<<"b", "y">>, "A">>]
Insecure == [Base EXCEPT !.question = <<<<"b", "y">>, "A">>]
Optout == [SharedNx EXCEPT !.optout = {Root, a}]
Unsupported == [Shared EXCEPT !.unsupported = {a}]
Cname == [Shared EXCEPT !.cname = (<<"a", "x">> :> <<"b", "y">>)]
CnameNx == [Shared EXCEPT !.cname = (<<"a", "x">> :> <<"a", "q">>)]
NoData == [Shared EXCEPT !.question = <<<<"a", "x">>, "AAAA">>]
Negative == [Shared EXCEPT !.negative = {a}]
CheckingDisabled == [Shared EXCEPT !.cd = TRUE]
BothFamilies == [Base EXCEPT !.options = {}, !.faults = 1]

\* The same, with a cache that other requests have filled.  Nobody holds keys
\* of a zone that cannot be validated, and its NS set may have been cached before
\* or after that was known.
Cut(w, z, key, addr) ==
  {[zone |-> z, insecure |-> u, ds |-> z \in w.signed /\ z # Root,
    key |-> key /\ SecureZone(w, z), addr |-> addr] :
     u \in IF SecureZone(w, z) THEN {FALSE} ELSE BOOLEAN}

Warm(w) ==
  [w EXCEPT !.cuts = Cut(w, Root, TRUE, TRUE) \cup Cut(w, a, FALSE, FALSE)
                     \cup Cut(w, a, TRUE, TRUE) \cup Cut(w, b, FALSE, TRUE),
            !.cached = {w.question, <<a, "DS">>, <<nsB, "A">>, <<<<"b", "y">>, "A">>},
            !.faults = 1]

\* Of Base, only the zone that has its server elsewhere and that server's.
WarmBase == [Base EXCEPT !.cuts = Cut(Base, a, FALSE, FALSE) \cup Cut(Base, b, FALSE, TRUE),
                         !.cached = {Base.question, <<nsB, "A">>}, !.faults = 1]
WarmShared == [Warm(Shared) EXCEPT !.faults = 2]

MCWorlds ==
  {Base, WarmBase, BothFamilies, NoData, Negative, CheckingDisabled}
  \cup UNION {{w, Warm(w)} : w \in {SharedNx, SharedInsecure, Insecure, Optout, Unsupported,
                                   Cname}}
  \cup {Shared, WarmShared, CnameNx}
=============================================================================
