------------------------------- MODULE MCPci --------------------------------
(* An instance for TLC: two slots of two functions, the first of them a     *)
(* bridge or nothing, with the devices of the scan in every arrangement.   *)
EXTENDS Pci, TLC

Bars(first, fifth) ==
  [i \in 0 .. 5 |-> CASE i = 0 -> [kind |-> first, value |-> "low"]
                      [] i = 1 -> [kind |-> "memory", value |-> "high"]
                      [] OTHER -> [kind |-> "memory", value |-> fifth]]
Device(class, multi, first, legacy, fifth) ==
  [class |-> class, multi |-> multi, bars |-> Bars(first, fifth), legacy |-> legacy]
Other(multi) == Device("other", multi, "memory", "none", "unused")
Ehci(multi, first, legacy) == Device("ehci", multi, first, legacy, "unused")
Ahci(multi, n) == Device("ahci", multi, "memory", "none", n)

First == {Absent} \cup {Other(m) : m \in BOOLEAN} \cup {Ehci(TRUE, "memory", "firmware")}
Second == {Absent, Other(FALSE), Ahci(FALSE, "abar0"), Ehci(FALSE, "wide", "none")}
Third == {Absent, Other(TRUE), Ahci(TRUE, "abar1"), Ehci(TRUE, "io", "none"),
          Ehci(TRUE, "wide", "firmware"), Ehci(FALSE, "memory", "free")}
Fourth == {Absent, Ahci(FALSE, "abar2"), Ehci(FALSE, "wide", "firmware"), Ehci(FALSE, "io", "free")}

AllMachines ==
  {(<<0, 0>> :> a) @@ (<<0, 1>> :> b) @@ (<<1, 0>> :> c) @@ (<<1, 1>> :> d) :
     a \in First, b \in Second, c \in Third, d \in Fourth}
=============================================================================
