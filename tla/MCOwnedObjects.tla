--------------------------- MODULE MCOwnedObjects ---------------------------
(***************************************************************************)
(* Two apps, a and a-b, whose entries b-c and c come to the same ConfigMap *)
(* a-b-c.                                                                  *)
(***************************************************************************)
EXTENDS OwnedObjects, TLC

MCApps == {<<"a">>, <<"a", "b">>}

MCNames == <<"a">> :> {<<"b", "c">>} @@ <<"a", "b">> :> {<<"c">>}

(* Contents without values that span lines. *)
MCContents == {<< << <<1>> >> >>, << << <<2>> >> >>, << <<>>, << <<1>> >> >>}

ASSUME PlainContents == OneLine({1, 2})

MCPorts == {<< << <<80>> >> >>}
=============================================================================
