------------------------------ MODULE MCMangler ------------------------------
(***************************************************************************)
(* The instance of Mangler that TLC checks.                                *)
(***************************************************************************)
EXTENDS Mangler

MCHeaderName == {"Contact", "User-Agent", "Authorization", "X-Tag"}

MCCustomLists ==
    {<<>>, <<"X-Tag">>, <<"Contact">>, <<"User-Agent">>, <<"Authorization">>,
     <<"X-Tag", "X-Tag">>, <<"X-Tag", "Contact">>, <<"Contact", "X-Tag">>}

=============================================================================
