----------------------------- MODULE MCDelivery -----------------------------
(***************************************************************************)
(* Instance of Delivery: a mg_buf of three slots that four messages fill,  *)
(* a table of two entries; a filter without and with each wildcard, a text *)
(* that the stack left, and topics that some of the filters, several of    *)
(* them or none select.                                                    *)
(***************************************************************************)
EXTENDS Delivery

Filters == {<<"/", "g", "/", "a", "b">>, <<"/", "g", "/", "+">>,
            <<"/", "g", "/", "+", "/", "c">>, <<"/", "g", "/", "#">>, <<"g", "#", "/">>}

Names == {<<"/", "g", "/", "a", "b">>, <<"/", "g", "/", "a", "b", "/", "c">>,
          <<"/", "h", "/", "a">>,
          <<"@", "i">>, <<"/", "g", "/", "&", "p">>}
=============================================================================
