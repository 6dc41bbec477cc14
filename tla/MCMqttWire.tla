----------------------------- MODULE MCMqttWire -----------------------------
(***************************************************************************)
(* Instance of MqttWire: packets around the length that needs two bytes    *)
(* and around the size of the buffer, one of every other type, and packet  *)
(* ids of one and two bytes.                                               *)
(***************************************************************************)
EXTENDS MqttWire

Letters(k) == [i \in 1 .. k |-> 96 + (i % 3)]
Make(type, id, strings, payload, retained) ==
  [type |-> type, id |-> id, strings |-> strings, payload |-> payload, retained |-> retained]

Publishes(lengths) ==
  {Make(PUBLISH, 0, <<Letters(3)>>, Letters(k), 0) : k \in lengths}
    \cup {Make(PUBLISH, 0, <<Letters(1)>>, Letters(k), 1) : k \in {0, 2}}

Ids == {258, 65535}

Requests ==
  Publishes({1, 122, 123, 124})
    \cup {Make(SUBSCRIBE, n, <<Letters(2)>>, <<0>>, 0) : n \in Ids}
    \cup {Make(UNSUBSCRIBE, 255, <<Letters(2)>>, << >>, 0),
          Make(PINGREQ, 0, << >>, << >>, 0),
          Make(CONNECT, 15, <<Letters(16), Letters(27), Letters(28)>>, << >>, 0),
          Make(CONNECT, 300, <<Letters(16), Letters(33), Letters(60)>>, << >>, 0)}

Replies ==
  Publishes({1, 122, 123})
    \cup {Make(SUBACK, 258, << >>, <<0>>, 0), Make(SUBACK, 65535, << >>, <<128>>, 0)}
    \cup {Make(CONNACK, 0, << >>, <<5>>, 0), Make(UNSUBACK, 255, << >>, << >>, 0),
          [Failure EXCEPT !.type = PINGRESP]}
=============================================================================
