------------------------------ MODULE MCDiscovery ------------------------------
(* Instances of Discovery for TLC. *)
EXTENDS Discovery

CONSTANTS gate, bybit, okx, bad

Order == <<gate, bybit, okx>>

\* A coin everywhere and one on two venues; failed fetches leave one venue or none.
VenueOffers == {(gate :> <<5, bad>>) @@ (bybit :> <<5, None>>) @@ (okx :> <<5, 5>>)}

Plain == [auto_discover |-> TRUE, anchor |-> None, min_venues |-> 2, max_symbols |-> 1,
          symbols |-> {1}, always_screen |-> {}]

\* The most covered coin; those of an anchor with a pinned one.
SomeSettings ==
  {Plain,
   [Plain EXCEPT !.anchor = bybit, !.min_venues = 1, !.max_symbols = 2, !.always_screen = {2}]}
=============================================================================
