----------------------------- MODULE MCShtpLink -----------------------------
(* ShtpLink with an advertisement of five units and other cargoes of one   *)
(* and three in chunks of two: transfers of one, two and three chunks (the *)
(* real advertisement takes two); enough resets and failures for one to    *)
(* fall between any two transactions and another into what follows.        *)
EXTENDS ShtpLink

=============================================================================
