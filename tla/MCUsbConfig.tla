---------------------------- MODULE MCUsbConfig -----------------------------
(* An instance for TLC: every configuration of up to three descriptors of  *)
(* each kind, and pairs of configurations of up to two.                    *)
EXTENDS UsbConfig

Intf(c) == [type |-> "intf", len |-> 9, class |-> c]
Endp(in, a) == [type |-> "endp", len |-> 7, isin |-> in, attributes |-> a]
Other == [type |-> "other", len |-> 9]
Kinds == {Intf("hub"), Intf("storage"), Intf("hid"), Endp(TRUE, 2), Endp(FALSE, 2),
          Endp(TRUE, 0), Other, [Other EXCEPT !.len = 0], [Intf("hid") EXCEPT !.len = 0]}
Common == {Intf("storage"), Intf("hid"), Endp(TRUE, 2), Endp(FALSE, 2)}

Lists(S, n) == UNION {[1 .. k -> S] : k \in 0 .. n}
Conf(v, f, s) == [value |-> v, fits |-> f, descs |-> s]
Single == {<<Conf(v, TRUE, s)>> : v \in {0, 1}, s \in Lists(Kinds, 3) \cup [1 .. 4 -> Common]}
Double == {<<Conf(1, f, s), Conf(2, TRUE, t)>> :
             f \in BOOLEAN, s \in Lists(Common, 3), t \in Lists(Common, 1) \cup [1 .. 3 -> Common]}
AllDevices ==
  [confs : Single \cup Double \cup {<<>>}, strlen : {18}, packet : {64}]
    \cup [confs : {<<Conf(1, TRUE, <<>>)>>}, strlen : {0, 1, 2, 255}, packet : {0, 64}]
=============================================================================
