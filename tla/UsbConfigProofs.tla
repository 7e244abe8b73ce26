--------------------------- MODULE UsbConfigProofs ---------------------------
(***************************************************************************)
(* Proofs about what UsbDevInit builds from the descriptors of a device,    *)
(* for any descriptors and any requests that fail: no pointer is followed   *)
(* that was not set, and an ordinary device gets its driver and endpoints.  *)
(***************************************************************************)
EXTENDS UsbConfig, TLAPS, WellFoundedInduction, SequenceTheorems

(* How far the parser is in the descriptors of configuration conf. *)
Parsed == Len(Descs(conf)) - Len(data)
Places == {"first", "addr", "whole", "strings", "conf", "parse", "drivers"} \cup Ended
Begun == {"first", "addr", "whole", "strings"}
Bare == intfs = <<>> /\ endps = <<>>
ConfigTypes ==
  /\ device \in Devices /\ fails \in Nat /\ conf \in Nat \ {0} /\ picked \in Nat
  /\ pc \in Places /\ data \in Seq(Descriptor)
  /\ intfs \in Seq([class : Classes, endpoints : Nat])
  /\ endps \in Seq([isin : BOOLEAN, attributes : Nat, next : Nat])
ParseAt ==
  /\ pc \in Begun => conf = 1 /\ picked = 0 /\ Bare
  /\ pc = "conf" => conf <= Len(device.confs) + 1
  /\ pc = "parse" =>
       /\ conf <= Len(device.confs) /\ Len(data) <= Len(Descs(conf))
       /\ \A j \in 1 .. Len(data) : data[j] = Descs(conf)[Parsed + j]
  /\ pc = "drivers" => intfs # <<>>
Chained == \A i \in 1 .. Len(endps) : endps[i].next = IF i < Len(endps) THEN i + 1 ELSE 0
ConfigInv == ConfigTypes /\ ParseAt /\ Chained

-----------------------------------------------------------------------------
(* What the assumption says of the device at hand. *)
LEMMA DeviceIs ==
  ASSUME device \in Devices
  PROVE  /\ device.confs \in Seq([value : Nat, fits : BOOLEAN, descs : Seq(Descriptor)])
         /\ Len(device.confs) \in Nat /\ device.strlen \in 0 .. 255 /\ device.packet \in Nat
         /\ \A i \in 1 .. Len(device.confs) :
              /\ device.confs[i].value \in Nat /\ device.confs[i].fits \in BOOLEAN
              /\ Descs(i) = device.confs[i].descs /\ Descs(i) \in Seq(Descriptor)
              /\ Len(Descs(i)) \in Nat
  <1>1. device \in Device
    BY ParametersAssumption
  <1>2. /\ device.confs \in Seq([value : Nat, fits : BOOLEAN, descs : Seq(Descriptor)])
        /\ device.strlen \in 0 .. 255 /\ device.packet \in Nat
    BY <1>1 DEF Device
  <1>3. ASSUME NEW i \in 1 .. Len(device.confs)
        PROVE  device.confs[i] \in [value : Nat, fits : BOOLEAN, descs : Seq(Descriptor)]
    <2> DEFINE R == [value : Nat, fits : BOOLEAN, descs : Seq(Descriptor)]
    <2>1. device.confs \in Seq(R)
      BY <1>2
    <2> HIDE DEF R
    <2>2. device.confs[i] \in R
      BY <2>1
    <2> QED BY <2>2 DEF R
  <1>4. \A i : Descs(i) = device.confs[i].descs
    BY DEF Descs
  <1>5. Len(device.confs) \in Nat
    BY <1>2
  <1> HIDE DEF Descs
  <1>6. ASSUME NEW i \in 1 .. Len(device.confs)
        PROVE  /\ device.confs[i].value \in Nat /\ device.confs[i].fits \in BOOLEAN
               /\ Descs(i) = device.confs[i].descs /\ Descs(i) \in Seq(Descriptor)
    BY <1>3, <1>4
  <1>7. ASSUME NEW i \in 1 .. Len(device.confs) PROVE Len(Descs(i)) \in Nat
    BY <1>6
  <1> QED BY <1>2, <1>5, <1>6, <1>7

(* A step of the parser is one descriptor on, if it has a length. *)
LEMMA HeadIs ==
  ASSUME ConfigInv, pc = "parse", data # <<>>
  PROVE  /\ conf \in 1 .. Len(device.confs) /\ Parsed \in Nat /\ Parsed < Len(Descs(conf))
         /\ Head(data) = Descs(conf)[Parsed + 1] /\ Head(data) \in Descriptor
         /\ Len(data) \in Nat /\ Len(Descs(conf)) \in Nat
         /\ Parsed + 1 \in 1 .. Len(Descs(conf))
  <1>1. conf \in 1 .. Len(device.confs) /\ Len(data) \in Nat /\ Len(data) >= 1 /\ Len(data) <= Len(Descs(conf))
    BY DeviceIs DEF ConfigInv, ConfigTypes, ParseAt
  <1>2. Len(Descs(conf)) \in Nat
    BY <1>1, DeviceIs DEF ConfigInv, ConfigTypes
  <1>3. Parsed \in Nat /\ Parsed < Len(Descs(conf))
    BY <1>1, <1>2 DEF Parsed
  <1>4. Head(data) = data[1] /\ Head(data) \in Descriptor
    BY <1>1 DEF ConfigInv, ConfigTypes
  <1>5. data[1] = Descs(conf)[Parsed + 1]
    BY <1>1 DEF ConfigInv, ParseAt
  <1> QED BY <1>1, <1>2, <1>3, <1>4, <1>5

LEMMA AdvanceIs ==
  ASSUME ConfigInv, pc = "parse", data # <<>>, Advance,
         UNCHANGED <<device, conf>>
  PROVE  /\ data' \in Seq(Descriptor) /\ Len(data') <= Len(Descs(conf)')
         /\ \A j \in 1 .. Len(data') : data'[j] = Descs(conf)'[Parsed' + j]
         /\ Descs(conf)' = Descs(conf)
         /\ Parsed' = IF Head(data).len = 0 THEN Parsed ELSE Parsed + 1
  <1>1. Descs(conf)' = Descs(conf)
    BY DEF Descs
  <1>2. /\ Len(data) \in Nat /\ Len(Descs(conf)) \in Nat /\ Len(data) >= 1
        /\ data \in Seq(Descriptor) /\ Len(data) <= Len(Descs(conf))
        /\ \A j \in 1 .. Len(data) : data[j] = Descs(conf)[Parsed + j]
    BY HeadIs DEF ConfigInv, ConfigTypes, ParseAt, Parsed
  <1>3. CASE Head(data).len = 0
    <2>1. data' = data /\ Parsed' = Parsed
      BY <1>1, <1>3 DEF Advance, Parsed
    <2> QED BY <1>1, <1>2, <1>3, <2>1
  <1>4. CASE Head(data).len # 0
    <2>1. data' = Tail(data)
      BY <1>4 DEF Advance
    <2>2. /\ data' \in Seq(Descriptor) /\ Len(data') = Len(data) - 1
          /\ \A j \in 1 .. Len(data') : data'[j] = data[j + 1]
      BY <1>2, <2>1
    <2>3. Parsed' = Parsed + 1 /\ Parsed \in Int
      BY <1>1, <1>2, <2>2 DEF Parsed
    <2>4. ASSUME NEW j \in 1 .. Len(data') PROVE data'[j] = Descs(conf)[Parsed' + j]
      <3>1. j + 1 \in 1 .. Len(data) /\ Parsed + (j + 1) = Parsed' + j
        BY <1>2, <2>2, <2>3
      <3> QED BY <1>2, <2>2, <3>1
    <2> QED BY <1>1, <1>2, <1>4, <2>2, <2>3, <2>4
  <1> QED BY <1>3, <1>4

(* The lists of interfaces and endpoints after one more of each. *)
Intfs == [class : Classes, endpoints : Nat]
Endps == [isin : BOOLEAN, attributes : Nat, next : Nat]
LEMMA ParseIntfIs ==
  ASSUME ConfigInv, ParseIntf
  PROVE  \/ Len(intfs) + Len(endps) = MaxNodes
         \/ /\ Len(intfs) + Len(endps) # MaxNodes /\ pc' = pc /\ Advance
            /\ intfs' \in Seq(Intfs) /\ Len(intfs') = Len(intfs) + 1
            /\ \A i \in 1 .. Len(intfs) : intfs'[i] = intfs[i]
            /\ intfs'[Len(intfs) + 1] = [class |-> Head(data).class, endpoints |-> 0]
  <1>1. Head(data) \in Descriptor
    BY HeadIs DEF ParseIntf
  <1>2. Head(data).class \in Classes
    BY <1>1 DEF ParseIntf, Descriptor
  <1>3. intfs \in Seq(Intfs)
    BY DEF ConfigInv, ConfigTypes, Intfs
  <1> DEFINE new == [class |-> Head(data).class, endpoints |-> 0]
  <1>4. new \in Intfs
    BY <1>2 DEF Intfs
  <1>5. CASE Len(intfs) + Len(endps) # MaxNodes
    <2>1. intfs' = Append(intfs, new) /\ Advance /\ pc' = pc
      BY <1>5 DEF ParseIntf
    <2> HIDE DEF new
    <2>2. /\ intfs' \in Seq(Intfs) /\ Len(intfs') = Len(intfs) + 1
          /\ \A i \in 1 .. Len(intfs) : intfs'[i] = intfs[i]
          /\ intfs'[Len(intfs) + 1] = new
      BY <1>3, <1>4, <2>1
    <2> QED BY <1>5, <2>1, <2>2 DEF new
  <1> QED BY <1>5

LEMMA ParseEndpIs ==
  ASSUME ConfigInv, ParseEndp
  PROVE  LET n == Len(endps) + 1
         IN \/ Len(intfs) + Len(endps) = MaxNodes
            \/ intfs = <<>> /\ pc' = "false" /\ UNCHANGED <<endps, intfs, data>>
            \/ /\ Len(intfs) + Len(endps) # MaxNodes /\ intfs # <<>>
               /\ pc' = pc /\ Advance
               /\ intfs' \in Seq(Intfs) /\ Len(intfs') = Len(intfs)
               /\ \A i \in 1 .. Len(intfs) :
                    /\ intfs'[i].class = intfs[i].class
                    /\ intfs'[i].endpoints = IF i = Len(intfs) /\ endps = <<>> THEN 1 ELSE intfs[i].endpoints
               /\ endps' \in Seq(Endps) /\ Len(endps') = n
               /\ \A i \in 1 .. n :
                    /\ endps'[i].isin = IF i = n THEN Head(data).isin ELSE endps[i].isin
                    /\ endps'[i].attributes = IF i = n THEN Head(data).attributes ELSE endps[i].attributes
                    /\ endps'[i].next = IF i < n THEN i + 1 ELSE 0
  <1> DEFINE new == [isin |-> Head(data).isin, attributes |-> Head(data).attributes, next |-> 0]
             n == Len(endps) + 1
  <1>1. Head(data) \in Descriptor
    BY HeadIs DEF ParseEndp
  <1>2. Head(data).isin \in BOOLEAN /\ Head(data).attributes \in Nat
    BY <1>1 DEF ParseEndp, Descriptor
  <1>3. intfs \in Seq(Intfs) /\ endps \in Seq(Endps) /\ Len(endps) \in Nat /\ Len(intfs) \in Nat
    BY DEF ConfigInv, ConfigTypes, Intfs, Endps
  <1>4. new \in Endps
    BY <1>2 DEF Endps
  <1>5. SUFFICES ASSUME Len(intfs) + Len(endps) # MaxNodes, intfs # <<>>
        PROVE  /\ pc' = pc /\ Advance
               /\ intfs' \in Seq(Intfs) /\ Len(intfs') = Len(intfs)
               /\ \A i \in 1 .. Len(intfs) :
                    /\ intfs'[i].class = intfs[i].class
                    /\ intfs'[i].endpoints = IF i = Len(intfs) /\ endps = <<>> THEN 1 ELSE intfs[i].endpoints
               /\ endps' \in Seq(Endps) /\ Len(endps') = n
               /\ \A i \in 1 .. n :
                    /\ endps'[i].isin = IF i = n THEN Head(data).isin ELSE endps[i].isin
                    /\ endps'[i].attributes = IF i = n THEN Head(data).attributes ELSE endps[i].attributes
                    /\ endps'[i].next = IF i < n THEN i + 1 ELSE 0
    <2>1. intfs = <<>> => PickedIntf = 0
      BY DEF PickedIntf
    <2>2. intfs = <<>> /\ Len(intfs) + Len(endps) # MaxNodes => pc' = "false" /\ UNCHANGED <<endps, intfs, data>>
      BY <2>1 DEF ParseEndp
    <2> QED BY <2>2
  <1>6. Len(intfs) > 0
    BY <1>3, <1>5
  <1>7. pc' = pc /\ Advance
    BY <1>5, <1>6 DEF ParseEndp, PickedIntf
  <1>8. CASE endps = <<>>
    <2>1. intfs' = [intfs EXCEPT ![Len(intfs)].endpoints = 1] /\ endps' = <<new>>
      BY <1>5, <1>6, <1>8 DEF ParseEndp, PickedIntf, PickedEndp
    <2>2. n = 1
      BY <1>8
    <2> HIDE DEF n
    <2>3. endps' \in Seq(Endps) /\ Len(endps') = n /\ endps'[1] = new
      BY <1>4, <2>1, <2>2
    <2>4. \A i \in 1 .. n :
            /\ endps'[i].isin = IF i = n THEN Head(data).isin ELSE endps[i].isin
            /\ endps'[i].attributes = IF i = n THEN Head(data).attributes ELSE endps[i].attributes
            /\ endps'[i].next = IF i < n THEN i + 1 ELSE 0
      BY <2>2, <2>3
    <2>5. intfs[Len(intfs)] \in Intfs
      BY <1>3, <1>6
    <2>6. [intfs[Len(intfs)] EXCEPT !.endpoints = 1] \in Intfs
      BY <2>5 DEF Intfs
    <2>7. intfs' = [intfs EXCEPT ![Len(intfs)] = [intfs[Len(intfs)] EXCEPT !.endpoints = 1]]
      BY <1>3, <1>6, <2>1
    <2>8. intfs' \in Seq(Intfs) /\ Len(intfs') = Len(intfs)
      BY <1>3, <1>6, <2>6, <2>7
    <2>9. ASSUME NEW i \in 1 .. Len(intfs)
          PROVE  /\ intfs'[i].class = intfs[i].class
                 /\ intfs'[i].endpoints = IF i = Len(intfs) THEN 1 ELSE intfs[i].endpoints
      <3>1. intfs[i] \in Intfs
        BY <1>3, <2>9
      <3>2. intfs'[i] = IF i = Len(intfs) THEN [intfs[i] EXCEPT !.endpoints = 1] ELSE intfs[i]
        BY <1>3, <2>7, <2>9
      <3> QED BY <3>1, <3>2 DEF Intfs
    <2> QED BY <1>7, <1>8, <2>3, <2>4, <2>8, <2>9
  <1>9. CASE endps # <<>>
    <2>1. Len(endps) >= 1
      BY <1>3, <1>9
    <2>2. endps' = Append([endps EXCEPT ![Len(endps)].next = Len(endps) + 1], new) /\ intfs' = intfs
      BY <1>5, <1>6, <2>1 DEF ParseEndp, PickedIntf, PickedEndp
    <2> DEFINE e == [endps EXCEPT ![Len(endps)] = [endps[Len(endps)] EXCEPT !.next = Len(endps) + 1]]
    <2>3. endps[Len(endps)] \in Endps /\ endps' = Append(e, new)
      BY <1>3, <2>1, <2>2
    <2>4. [endps[Len(endps)] EXCEPT !.next = Len(endps) + 1] \in Endps
      <3> DEFINE last == endps[Len(endps)]
                 m == Len(endps) + 1
      <3>1. last \in Endps /\ m \in Nat
        BY <1>3, <2>3
      <3> HIDE DEF last, m
      <3>2. [last EXCEPT !.next = m] \in Endps
        BY <3>1 DEF Endps
      <3> QED BY <3>2 DEF last, m
    <2>5. /\ e \in Seq(Endps) /\ Len(e) = Len(endps)
          /\ \A i \in 1 .. Len(endps) :
               e[i] = IF i = Len(endps) THEN [endps[i] EXCEPT !.next = Len(endps) + 1] ELSE endps[i]
      BY <1>3, <2>1, <2>4
    <2> HIDE DEF e, new
    <2>6. /\ endps' \in Seq(Endps) /\ Len(endps') = n /\ endps'[n] = new
          /\ \A i \in 1 .. Len(endps) : endps'[i] = e[i]
      BY <1>4, <2>3, <2>5
    <2>7. ASSUME NEW i \in 1 .. n
          PROVE  /\ endps'[i].isin = IF i = n THEN Head(data).isin ELSE endps[i].isin
                 /\ endps'[i].attributes = IF i = n THEN Head(data).attributes ELSE endps[i].attributes
                 /\ endps'[i].next = IF i < n THEN i + 1 ELSE 0
      <3>1. CASE i = n
        BY <2>6, <3>1 DEF new
      <3>2. CASE i # n
        <4>1. i \in 1 .. Len(endps) /\ i < n
          BY <1>3, <3>2
        <4>2. endps[i] \in Endps /\ endps[i].next = IF i < Len(endps) THEN i + 1 ELSE 0
          BY <1>3, <4>1 DEF ConfigInv, Chained
        <4>3. endps'[i] = IF i = Len(endps) THEN [endps[i] EXCEPT !.next = Len(endps) + 1] ELSE endps[i]
          BY <2>5, <2>6, <4>1
        <4>4. CASE i = Len(endps)
          BY <3>2, <4>1, <4>2, <4>3, <4>4 DEF Endps
        <4>5. CASE i # Len(endps)
          <5>1. i < Len(endps) /\ endps'[i] = endps[i]
            BY <1>3, <4>1, <4>3, <4>5
          <5> QED BY <3>2, <4>1, <4>2, <5>1
        <4> QED BY <4>4, <4>5
      <3> QED BY <3>1, <3>2
    <2> QED BY <1>3, <1>7, <1>9, <2>2, <2>6, <2>7
  <1> QED BY <1>8, <1>9

LEMMA ConfigInitial == Init => ConfigInv
  <1> SUFFICES ASSUME Init PROVE ConfigInv
    OBVIOUS
  <1>1. ConfigTypes
    BY DEF Init, ConfigTypes, Places
  <1>2. ParseAt /\ Chained
    BY DEF Init, ParseAt, Chained, Begun, Bare
  <1> QED BY <1>1, <1>2 DEF ConfigInv

LEMMA ParserKeeps ==
  ASSUME ConfigInv, ParseIntf \/ ParseEndp \/ ParseOther
  PROVE  ConfigInv'
  <1>1. /\ pc = "parse" /\ data # <<>> /\ UNCHANGED <<device, fails, conf, picked>>
        /\ conf <= Len(device.confs)
    BY DEF ParseIntf, ParseEndp, ParseOther, ConfigInv, ParseAt
  <1>2. \/ pc' = pc /\ Advance
        \/ pc' \in {"undefined", "false"} /\ UNCHANGED data
    BY ParseIntfIs, ParseEndpIs DEF ParseIntf, ParseEndp, ParseOther
  <1>3. data' \in Seq(Descriptor)
    BY <1>1, <1>2, AdvanceIs DEF ConfigInv, ConfigTypes
  <1>4. /\ intfs' \in Seq([class : Classes, endpoints : Nat])
        /\ endps' \in Seq([isin : BOOLEAN, attributes : Nat, next : Nat]) /\ Chained'
    <2>1. UNCHANGED endps => Chained'
      BY DEF ConfigInv, Chained
    <2>2. /\ intfs \in Seq([class : Classes, endpoints : Nat])
          /\ endps \in Seq([isin : BOOLEAN, attributes : Nat, next : Nat])
      BY DEF ConfigInv, ConfigTypes
    <2>3. CASE ParseIntf
      BY <2>1, <2>2, <2>3, ParseIntfIs DEF Intfs, ParseIntf
    <2>4. CASE ParseEndp
      <3>1. CASE UNCHANGED <<intfs, endps>>
        BY <2>1, <2>2, <3>1
      <3>2. CASE ~UNCHANGED <<intfs, endps>>
        <4>1. intfs' \in Seq(Intfs) /\ endps' \in Seq(Endps) /\ Len(endps') = Len(endps) + 1
          BY <2>4, <3>2, ParseEndpIs DEF ParseEndp
        <4>2. \A i \in 1 .. Len(endps') : endps'[i].next = IF i < Len(endps') THEN i + 1 ELSE 0
          BY <2>4, <3>2, ParseEndpIs DEF ParseEndp
        <4> QED BY <4>1, <4>2 DEF Intfs, Endps, Chained
      <3> QED BY <3>1, <3>2
    <2>5. CASE ParseOther
      BY <2>1, <2>2, <2>5 DEF ParseOther
    <2> QED BY <2>3, <2>4, <2>5
  <1>5. ParseAt'
    BY <1>1, <1>2, AdvanceIs DEF ParseAt, Begun
  <1>6. ConfigTypes'
    BY <1>1, <1>2, <1>3, <1>4 DEF ConfigInv, ConfigTypes, Places, Ended
  <1> QED BY <1>4, <1>5, <1>6 DEF ConfigInv

LEMMA RequestsKeep ==
  ASSUME ConfigInv, NEW ok \in BOOLEAN,
         Identify(ok) \/ Strings(ok) \/ SetConf(ok)
  PROVE  ConfigInv'
  <1>1. UNCHANGED <<device, conf, data, picked, intfs, endps>> /\ fails' \in Nat
    BY DEF Identify, Strings, SetConf, Request, ConfigInv, ConfigTypes
  <1>2. /\ pc \in Begun /\ pc' \in Begun \cup {"conf", "false", "undefined"}
        \/ /\ pc = "conf" /\ pc' \in {"true", "false", "undefined", "drivers"}
           /\ pc' = "drivers" => intfs # <<>>
    <2>1. CASE Identify(ok)
      BY <2>1 DEF Identify, AfterIdentify, Begun
    <2>2. CASE Strings(ok)
      BY <2>2 DEF Strings, Begun
    <2>3. CASE SetConf(ok)
      BY <2>3 DEF SetConf
    <2> QED BY <2>1, <2>2, <2>3
  <1>3. ParseAt'
    <2>1. Len(device.confs) \in Nat
      BY DeviceIs DEF ConfigInv, ConfigTypes
    <2> QED BY <1>1, <1>2, <2>1 DEF ParseAt, ConfigInv, Begun, Bare
  <1>4. ConfigTypes'
    BY <1>1, <1>2 DEF ConfigInv, ConfigTypes, Places, Begun, Ended
  <1>5. Chained'
    BY <1>1 DEF ConfigInv, Chained
  <1> QED BY <1>3, <1>4, <1>5 DEF ConfigInv

LEMMA ReadConfKeeps ==
  ASSUME ConfigInv, NEW ok \in BOOLEAN, ReadConf(ok)
  PROVE  ConfigInv'
  <1>1. /\ UNCHANGED <<device, intfs, endps>> /\ fails' \in Nat /\ pc = "conf" /\ conf \in 1 .. Len(device.confs)
        /\ Len(device.confs) \in Nat
    <2>1. Len(device.confs) \in Nat
      BY DeviceIs DEF ConfigInv, ConfigTypes
    <2> QED BY <2>1 DEF ReadConf, Request, ConfigInv, ConfigTypes
  <1>2. device.confs[conf].value \in Nat /\ Descs(conf) = device.confs[conf].descs /\ Descs(conf) \in Seq(Descriptor)
    BY <1>1, DeviceIs DEF ConfigInv, ConfigTypes
  <1>3. CASE ok /\ device.confs[conf].fits
    <2>1. pc' = "parse" /\ conf' = conf /\ picked' \in Nat /\ data' = Descs(conf)
      BY <1>2, <1>3 DEF ReadConf, ConfigInv, ConfigTypes
    <2>2. Descs(conf)' = Descs(conf)
      BY <1>1, <2>1 DEF Descs
    <2>3. Parsed' = 0
      BY <1>2, <2>1, <2>2 DEF Parsed
    <2>4. ParseAt'
      BY <1>1, <1>2, <2>1, <2>2, <2>3 DEF ParseAt, Begun
    <2>5. ConfigTypes'
      BY <1>1, <1>2, <2>1 DEF ConfigInv, ConfigTypes, Places
    <2> QED BY <1>1, <2>4, <2>5 DEF ConfigInv, Chained
  <1>4. CASE ~(ok /\ device.confs[conf].fits)
    <2>1. conf' = conf + 1 /\ UNCHANGED <<picked, data, pc>>
      BY <1>4 DEF ReadConf
    <2> QED BY <1>1, <2>1 DEF ConfigInv, ConfigTypes, ParseAt, Chained, Begun
  <1> QED BY <1>3, <1>4

LEMMA ConfigStep ==
  ASSUME ConfigInv, [Next]_vars
  PROVE  ConfigInv'
  <1>1. CASE \E ok \in BOOLEAN : Identify(ok) \/ Strings(ok) \/ ReadConf(ok) \/ SetConf(ok)
    BY <1>1, RequestsKeep, ReadConfKeeps
  <1>2. CASE ParseIntf \/ ParseEndp \/ ParseOther
    BY <1>2, ParserKeeps
  <1>3. CASE ParseEnd
    <2>1. Len(device.confs) \in Nat
      BY DeviceIs DEF ConfigInv, ConfigTypes
    <2> QED BY <1>3, <2>1 DEF ParseEnd, ConfigInv, ConfigTypes, ParseAt, Chained, Begun, Places
  <1>4. CASE StartDrivers
    BY <1>4 DEF StartDrivers, ConfigInv, ConfigTypes, ParseAt, Chained, Begun, Places, Ended
  <1>5. CASE UNCHANGED vars
    BY <1>5 DEF vars, ConfigInv, ConfigTypes, ParseAt, Chained, Parsed, Bare, Descs
  <1> QED BY <1>1, <1>2, <1>3, <1>4, <1>5 DEF Next, Parse

-----------------------------------------------------------------------------
(* For a sound device: the lists never need more than the descriptors that  *)
(* were parsed, and they are shaped by the first configuration.             *)
Nodes == Len(intfs) + Len(endps)
Space(n) ==
  /\ pc = "conf" => Nodes <= (conf - 1) * n
  /\ pc = "parse" => Nodes <= (conf - 1) * n + Parsed
Shaped == Len(endps) >= 2 /\ Len(intfs) >= 1 /\ intfs[1].endpoints = 1
Shaping(a, b, c) ==
  /\ Parsed < a => Bare
  /\ a <= Parsed => Len(intfs) = 1 /\ intfs[1].endpoints = IF endps = <<>> THEN 0 ELSE 1
  /\ b <= Parsed => endps # <<>>
  /\ Parsed < c
Takes == Shaped \/ \A a, b, c \in 1 .. Len(Descs(conf)) : Begins(conf, a, b, c) => Shaping(a, b, c)
SoundInv ==
  /\ \A n \in 0 .. MaxNodes : HasRoom(device, n) => Space(n)
  /\ pc = "conf" => Shaped \/ (Bare /\ picked = 0)
  /\ pc = "parse" => Takes
  /\ pc = "drivers" => Shaped
  /\ pc # "undefined"

LEMMA ListsAre ==
  ASSUME ConfigInv
  PROVE  Len(intfs) \in Nat /\ Len(endps) \in Nat /\ conf \in Nat /\ conf >= 1
  BY DEF ConfigInv, ConfigTypes

(* There is room for one descriptor more, until all are parsed. *)
LEMMA HasSpace ==
  ASSUME ConfigInv, SoundInv, pc = "parse", data # <<>>
  PROVE  Nodes < MaxNodes
  <1>1. PICK n \in 0 .. MaxNodes : HasRoom(device, n)
    BY ParametersAssumption DEF ConfigInv, ConfigTypes
  <1>2. Nodes <= (conf - 1) * n + Parsed
    BY <1>1 DEF SoundInv, Space
  <1>3. /\ conf \in 1 .. Len(device.confs) /\ Parsed \in Nat /\ Parsed < Len(Descs(conf))
        /\ Len(Descs(conf)) \in Nat
    BY HeadIs
  <1>4. Len(Descs(conf)) <= n /\ Len(device.confs) * n <= MaxNodes
    <2>1. Descs(conf) = device.confs[conf].descs
      BY DEF Descs
    <2> QED BY <1>1, <1>3, <2>1 DEF HasRoom
  <1>5. n \in Nat /\ MaxNodes \in Nat /\ conf \in Nat /\ Len(device.confs) \in Nat /\ Len(intfs) \in Nat /\ Len(endps) \in Nat
    BY <1>1, <1>3, ListsAre, DeviceIs, ParametersAssumption DEF ConfigInv, ConfigTypes
  <1>6. Nodes < (conf - 1) * n + n
    <2>1. (conf - 1) * n \in Int
      BY <1>5
    <2> QED BY <1>2, <1>3, <1>4, <1>5, <2>1 DEF Nodes
  <1>7. (conf - 1) * n + n = conf * n
    BY <1>5
  <1>8. conf * n <= Len(device.confs) * n
    <2>1. PICK k \in Nat : Len(device.confs) = conf + k
      <3>1. Len(device.confs) - conf \in Nat /\ Len(device.confs) = conf + (Len(device.confs) - conf)
        BY <1>3, <1>5
      <3> QED BY <3>1
    <2>2. Len(device.confs) * n = conf * n + k * n
      BY <1>5, <2>1
    <2>3. conf * n \in Nat /\ k * n \in Nat
      BY <1>5, <2>1
    <2> QED BY <2>2, <2>3
  <1>9. conf * n \in Nat /\ Len(device.confs) * n \in Nat /\ Nodes \in Nat
    BY <1>5 DEF Nodes
  <1> QED BY <1>4, <1>5, <1>6, <1>7, <1>8, <1>9

(* What Sound says of the configuration that is parsed. *)
LEMMA SoundIs ==
  ASSUME ConfigInv, Sound, pc = "parse"
  PROVE  /\ conf \in 1 .. Len(device.confs) /\ Len(Descs(conf)) \in Nat
         /\ \E a, b, c \in 1 .. Len(Descs(conf)) : Begins(conf, a, b, c)
         /\ data # <<>> => Head(data).len # 0
  <1>1. conf \in 1 .. Len(device.confs) /\ Len(Descs(conf)) \in Nat
    BY DeviceIs DEF ConfigInv, ConfigTypes, ParseAt
  <1>2. \E a, b, c \in 1 .. Len(Descs(conf)) : Begins(conf, a, b, c)
    <2>1. EndpointsBehindInterface(conf)
      BY <1>1 DEF Sound
    <2> QED BY <2>1 DEF EndpointsBehindInterface, Descs
  <1>3. ASSUME data # <<>> PROVE Head(data).len # 0
    <2>1. Head(data) = Descs(conf)[Parsed + 1] /\ Parsed + 1 \in 1 .. Len(Descs(conf))
      BY <1>3, HeadIs
    <2>2. Descs(conf)[Parsed + 1].len > 0
      BY <1>1, <2>1 DEF Sound, NoEmptyDescriptor, Descs
    <2> QED BY <2>1, <2>2
  <1> QED BY <1>1, <1>2, <1>3

(* One descriptor is parsed: the lists get at most one entry more, and are  *)
(* shaped as far as the first interface and its endpoints are known.        *)
LEMMA DescriptorShapes ==
  ASSUME ConfigInv, Sound, SoundInv,
         ParseIntf \/ ParseEndp \/ ParseOther
  PROVE  /\ pc' # "undefined" /\ pc' = "parse" => Takes'
         /\ pc' = "parse" => Nodes' <= Nodes + 1 /\ Parsed' = Parsed + 1
         /\ pc' \in {"parse", "false"}
         /\ pc' = "false" => ParseEndp /\ intfs = <<>>
  <1>1. /\ pc = "parse" /\ data # <<>> /\ UNCHANGED <<device, fails, conf, picked>>
    BY DEF ParseIntf, ParseEndp, ParseOther
  <1>2. Len(intfs) + Len(endps) # MaxNodes /\ Nodes < MaxNodes
    BY <1>1, HasSpace, ListsAre, ParametersAssumption DEF Nodes
  <1>3. \/ pc' = "parse" /\ Advance
        \/ pc' = "false" /\ intfs = <<>> /\ ParseEndp
    BY <1>1, <1>2, ParseIntfIs, ParseEndpIs DEF ParseOther
  <1>4. SUFFICES ASSUME pc' = "parse", Advance
        PROVE  Takes' /\ Nodes' <= Nodes + 1 /\ Parsed' = Parsed + 1
    BY <1>3
  <1>5. Parsed' = Parsed + 1 /\ Descs(conf)' = Descs(conf) /\ Parsed \in Nat
    BY <1>1, <1>4, AdvanceIs, SoundIs, HeadIs
  <1> DEFINE h == Head(data)
  <1>6. h = Descs(conf)[Parsed + 1] /\ Parsed + 1 \in 1 .. Len(Descs(conf)) /\ Len(Descs(conf)) \in Nat
    BY <1>1, HeadIs
  <1>7. Len(intfs) \in Nat /\ Len(endps) \in Nat /\ intfs \in Seq(Intfs) /\ endps \in Seq(Endps)
    BY ListsAre DEF ConfigInv, ConfigTypes, Intfs, Endps
  <1>8. /\ h.type = "intf" =>
             /\ Len(intfs') = Len(intfs) + 1 /\ endps' = endps
             /\ \A i \in 1 .. Len(intfs) : intfs'[i] = intfs[i]
             /\ intfs'[Len(intfs) + 1].endpoints = 0
        /\ h.type = "endp" =>
             /\ Len(intfs') = Len(intfs) /\ Len(endps') = Len(endps) + 1 /\ Len(intfs) >= 1
             /\ \A i \in 1 .. Len(intfs) :
                  intfs'[i].endpoints = IF i = Len(intfs) /\ endps = <<>> THEN 1 ELSE intfs[i].endpoints
        /\ h.type = "other" => UNCHANGED <<intfs, endps>>
        /\ h.type \in {"intf", "endp", "other"}
    <2>1. CASE ParseIntf
      BY <1>2, <2>1, ParseIntfIs DEF ParseIntf
    <2>2. CASE ParseEndp
      <3>1. intfs # <<>> => Len(intfs) >= 1
        BY <1>7
      <3> QED BY <1>2, <1>4, <2>2, <3>1, ParseEndpIs DEF ParseEndp
    <2>3. CASE ParseOther
      BY <2>3 DEF ParseOther
    <2> QED BY <2>1, <2>2, <2>3
  <1> HIDE DEF h
  <1>9. Nodes' <= Nodes + 1
    BY <1>7, <1>8 DEF Nodes
  <1>10. CASE Shaped
    <2>1. endps # <<>> /\ Len(intfs) >= 1 /\ Len(endps) >= 2 /\ intfs[1].endpoints = 1
      BY <1>7, <1>10 DEF Shaped
    <2>2. Len(intfs') >= 1 /\ Len(endps') >= 2 /\ intfs'[1].endpoints = 1
      BY <1>7, <1>8, <2>1
    <2> QED BY <1>5, <1>9, <2>2 DEF Takes, Shaped
  <1>11. CASE ~Shaped
    <2>1. ASSUME NEW a \in 1 .. Len(Descs(conf)), NEW b \in 1 .. Len(Descs(conf)),
                 NEW c \in 1 .. Len(Descs(conf)), Begins(conf, a, b, c), ~Shaped'
          PROVE  Shaping(a, b, c)'
      <3>1. Shaping(a, b, c)
        BY <1>1, <1>11, <2>1 DEF SoundInv, Takes
      <3>2. /\ a < b /\ b < c /\ a \in Nat /\ b \in Nat /\ c \in Nat
            /\ \A j \in 1 .. a - 1 : Descs(conf)[j].type = "other"
            /\ \A j \in a + 1 .. c : Descs(conf)[j].type # "intf"
            /\ Descs(conf)[a].type = "intf" /\ Descs(conf)[b].type = "endp" /\ Descs(conf)[c].type = "endp"
        BY <1>6, <2>1 DEF Begins, Descs
      <3>3. CASE Parsed + 1 < a
        <4>1. h.type = "other"
          BY <1>5, <1>6, <3>2, <3>3
        <4> QED BY <1>5, <1>8, <3>1, <3>2, <3>3, <4>1 DEF Shaping, Bare
      <3>4. CASE Parsed + 1 = a
        <4>1. h.type = "intf" /\ intfs = <<>> /\ endps = <<>>
          BY <1>5, <1>6, <3>1, <3>2, <3>4 DEF Shaping, Bare
        <4>2. Len(intfs') = 1 /\ intfs'[1].endpoints = 0 /\ endps' = <<>>
          BY <1>8, <4>1
        <4> QED BY <1>5, <3>2, <3>4, <4>2 DEF Shaping
      <3>5. CASE Parsed + 1 > a
        <4>1. /\ Len(intfs) = 1 /\ intfs[1].endpoints = IF endps = <<>> THEN 0 ELSE 1
              /\ b <= Parsed => endps # <<>> /\ Parsed < c
          BY <1>5, <3>1, <3>2, <3>5 DEF Shaping
        <4>2. h.type # "intf"
          BY <1>5, <1>6, <3>1, <3>2, <3>5 DEF Shaping
        <4>3. Len(intfs') = 1 /\ intfs'[1].endpoints = IF endps' = <<>> THEN 0 ELSE 1
          BY <1>7, <1>8, <4>1, <4>2
        <4>4. b <= Parsed + 1 => endps' # <<>>
          BY <1>5, <1>6, <1>7, <1>8, <3>2, <4>1, <4>2
        <4>5. Parsed + 1 # c
          <5>1. SUFFICES ASSUME Parsed + 1 = c PROVE FALSE
            OBVIOUS
          <5>2. h.type = "endp" /\ b <= Parsed
            BY <1>5, <1>6, <3>2, <5>1
          <5>3. Len(endps) >= 1 /\ Len(endps') = Len(endps) + 1
            BY <1>7, <1>8, <4>1, <5>2
          <5> QED BY <1>7, <2>1, <4>3, <5>3 DEF Shaped
        <4>6. Parsed + 1 < c
          BY <1>5, <3>1, <3>2, <4>5 DEF Shaping
        <4> QED BY <1>5, <3>2, <3>5, <4>3, <4>4, <4>6 DEF Shaping
      <3> QED BY <1>5, <3>2, <3>3, <3>4, <3>5
    <2>2. Shaped' \/ \A a, b, c \in 1 .. Len(Descs(conf)) : Begins(conf, a, b, c) => Shaping(a, b, c)'
      BY <2>1
    <2>3. \A a, b, c : Begins(conf, a, b, c)' = Begins(conf, a, b, c)
      BY <1>1 DEF Begins, Descs
    <2> QED BY <1>1, <1>5, <1>9, <2>2, <2>3 DEF Takes
  <1> QED BY <1>5, <1>9, <1>10, <1>11

(* A set of numbers that holds 0 and is closed under the successor holds    *)
(* all numbers; a set of numbers has a least one.                           *)
LEMMA LeastOf ==
  ASSUME NEW S \in SUBSET Nat, S # {}
  PROVE  \E m \in S : \A y \in S : m <= y
  <1>1. PICK m \in S : \A y \in S : ~(<<y, m>> \in OpToRel(<, Nat))
    BY WFMin, NatLessThanWellFounded, Zenon
  <1>2. \A y \in S : m <= y
    <2> TAKE y \in S
    <2>1. <<y, m>> \in Nat \X Nat /\ ~(<<y, m>> \in OpToRel(<, Nat))
      BY <1>1
    <2>2. ~(y < m)
      BY <2>1 DEF OpToRel
    <2> QED BY <2>2
  <1> QED BY <1>2

LEMMA AllNumbers ==
  ASSUME NEW S, 0 \in S, \A n \in Nat : n \in S => n + 1 \in S
  PROVE  \A n \in Nat : n \in S
  <1> DEFINE T == {n \in Nat : n \notin S}
  <1>1. ASSUME T # {} PROVE FALSE
    <2>1. T \in SUBSET Nat
      OBVIOUS
    <2>2. PICK m \in T : \A y \in T : m <= y
      BY <1>1, <2>1, LeastOf
    <2>3. m \in Nat /\ m \notin S /\ m # 0
      BY <2>2
    <2>4. m - 1 \in Nat /\ m - 1 \notin T /\ (m - 1) + 1 = m
      BY <2>2, <2>3
    <2>5. m - 1 \in S
      BY <2>4
    <2> QED BY <2>3, <2>4, <2>5
  <1> QED BY <1>1

(* The endpoints from the first one on are all endpoints, in their order. *)
LEMMA ChainIs ==
  ASSUME ConfigInv, Len(endps) >= 1
  PROVE  ChainFrom(1) = [i \in 1 .. Len(endps) |-> i]
  <1> DEFINE L == Len(endps)
             Upto(n) == [i \in 1 .. n |-> i]
             After(s) == IF s = <<>> \/ endps[Last(s)].next = 0 THEN s
                         ELSE Append(s, endps[Last(s)].next)
             Body(w) == [k \in 0 .. L |-> IF k = 0 THEN IF 1 = 0 THEN <<>> ELSE <<1>>
                                         ELSE LET s == w[k - 1]
                                              IN IF s = <<>> \/ endps[Last(s)].next = 0 THEN s
                                                 ELSE Append(s, endps[Last(s)].next)]
             c == CHOOSE w : w = Body(w)
             Reached(k) == Upto(IF k < L THEN k + 1 ELSE L)
             g == [k \in 0 .. L |-> Reached(k)]
  <1>1. L \in Nat /\ L >= 1
    BY ListsAre
  <1>2. ASSUME NEW n \in 1 .. L
        PROVE  /\ Upto(n) \in Seq(Nat) /\ Len(Upto(n)) = n /\ Upto(n) # <<>> /\ Last(Upto(n)) = n
               /\ After(Upto(n)) = Upto(IF n < L THEN n + 1 ELSE n)
    <2>1. Upto(n) \in Seq(Nat) /\ Len(Upto(n)) = n
      BY <1>1
    <2>2. Upto(n) # <<>> /\ Last(Upto(n)) = n
      BY <1>1, <2>1 DEF Last
    <2>3. endps[n].next = IF n < L THEN n + 1 ELSE 0
      BY <1>1 DEF ConfigInv, Chained
    <2>4. CASE n < L
      <3>1. Append(Upto(n), n + 1) = Upto(n + 1)
        <4>1. Append(Upto(n), n + 1) \in Seq(Nat) /\ Len(Append(Upto(n), n + 1)) = n + 1
          BY <1>1, <2>1
        <4>2. Upto(n + 1) \in Seq(Nat) /\ Len(Upto(n + 1)) = n + 1
          BY <1>1
        <4>3. ASSUME NEW i \in 1 .. n + 1 PROVE Append(Upto(n), n + 1)[i] = Upto(n + 1)[i]
          <5>1. CASE i = n + 1
            BY <1>1, <2>1, <5>1
          <5>2. CASE i # n + 1
            <6>1. i \in 1 .. Len(Upto(n))
              BY <1>1, <2>1, <5>2
            <6>2. Append(Upto(n), n + 1)[i] = Upto(n)[i]
              BY <2>1, <6>1
            <6> QED BY <2>1, <4>3, <6>1, <6>2
          <5> QED BY <5>1, <5>2
        <4> HIDE DEF Upto
        <4> QED BY <4>1, <4>2, <4>3, SeqEqual
      <3>2. endps[Last(Upto(n))].next = n + 1 /\ n + 1 # 0
        BY <1>1, <2>2, <2>3, <2>4
      <3>3. Upto(IF n < L THEN n + 1 ELSE n) = Upto(n + 1)
        BY <2>4
      <3> HIDE DEF Upto
      <3>4. After(Upto(n)) = Append(Upto(n), n + 1)
        BY <2>2, <3>2
      <3> HIDE DEF After
      <3> QED BY <2>1, <2>2, <3>1, <3>3, <3>4
    <2>5. CASE ~(n < L)
      <3>1. endps[Last(Upto(n))].next = 0
        BY <1>1, <2>2, <2>3, <2>5
      <3>2. Upto(IF n < L THEN n + 1 ELSE n) = Upto(n)
        BY <2>5
      <3> HIDE DEF Upto
      <3>3. After(Upto(n)) = Upto(n)
        BY <3>1
      <3> HIDE DEF After
      <3> QED BY <2>1, <2>2, <3>2, <3>3
    <2> HIDE DEF Upto, After
    <2> QED BY <2>1, <2>2, <2>4, <2>5
  <1>3. Reached(0) = <<1>>
    <2>1. (IF 0 < L THEN 0 + 1 ELSE L) = 1
      BY <1>1
    <2>2. Upto(1) = <<1>>
      OBVIOUS
    <2> HIDE DEF Upto
    <2> QED BY <2>1, <2>2
  <1>4. ASSUME NEW k \in 1 .. L PROVE After(Reached(k - 1)) = Reached(k)
    <2> DEFINE n == IF k - 1 < L THEN k - 1 + 1 ELSE L
    <2>1. n = k /\ n \in 1 .. L
      BY <1>1
    <2>2. After(Upto(k)) = Upto(IF k < L THEN k + 1 ELSE k)
      BY <1>2
    <2>3. Reached(k - 1) = Upto(k)
      <3> HIDE DEF Upto
      <3> QED BY <2>1
    <2>4. (IF k < L THEN k + 1 ELSE k) = (IF k < L THEN k + 1 ELSE L)
      BY <1>1
    <2> HIDE DEF Upto, After
    <2> QED BY <2>2, <2>3, <2>4
  <1> HIDE DEF Upto, Reached
  <1>5. ASSUME NEW w, NEW k \in 0 .. L
        PROVE  Body(w)[k] = IF k = 0 THEN <<1>> ELSE After(w[k - 1])
    OBVIOUS
  <1>6. g = Body(g)
    <2>1. ASSUME NEW k \in 0 .. L PROVE Body(g)[k] = g[k]
      <3>1. CASE k = 0
        BY <1>1, <1>3, <1>5, <3>1
      <3>2. CASE k # 0
        <4>1. k \in 1 .. L /\ k - 1 \in 0 .. L
          BY <1>1, <3>2
        <4>2. g[k - 1] = Reached(k - 1) /\ g[k] = Reached(k)
          BY <4>1
        <4>3. Body(g)[k] = After(g[k - 1])
          BY <1>5, <3>2
        <4> HIDE DEF g, After, Body
        <4> QED BY <1>4, <4>1, <4>2, <4>3
      <3> QED BY <3>1, <3>2
    <2>2. g = [k \in 0 .. L |-> g[k]] /\ Body(g) = [k \in 0 .. L |-> Body(g)[k]]
      OBVIOUS
    <2> HIDE DEF g, Body
    <2> QED BY <2>1, <2>2
  <1>7. c = Body(c)
    <2> HIDE DEF Body, g
    <2> QED BY <1>6
  <1>8. ChainFrom(1) = c[L]
    BY DEF ChainFrom
  <1> HIDE DEF c
  <1> DEFINE S == {j \in Nat : j <= L => c[j] = Reached(j)}
  <1>9. \A k \in Nat : k \in S
    <2>1. ASSUME NEW k \in 0 .. L PROVE c[k] = IF k = 0 THEN <<1>> ELSE After(c[k - 1])
      <3> HIDE DEF Body, After
      <3> QED BY <1>5, <1>7
    <2>2. 0 \in S
      BY <1>1, <1>3, <2>1
    <2>3. ASSUME NEW k \in Nat, k \in S PROVE k + 1 \in S
      <3>1. SUFFICES ASSUME k + 1 <= L PROVE c[k + 1] = Reached(k + 1)
        OBVIOUS
      <3>2. k + 1 \in 1 .. L /\ k + 1 \in 0 .. L /\ k + 1 # 0 /\ (k + 1) - 1 = k /\ c[k] = Reached(k)
        BY <1>1, <2>3, <3>1
      <3>3. c[k + 1] = After(c[k])
        <4> HIDE DEF After
        <4> QED BY <2>1, <3>2
      <3>4. After(Reached(k)) = Reached(k + 1)
        <4> HIDE DEF After
        <4> QED BY <1>4, <3>2
      <3> HIDE DEF After
      <3> QED BY <3>2, <3>3, <3>4
    <2> HIDE DEF S
    <2> QED BY <2>2, <2>3, AllNumbers
  <1>10. c[L] = Reached(L)
    BY <1>1, <1>9
  <1>11. Reached(L) = Upto(L)
    BY <1>1 DEF Reached
  <1> QED BY <1>8, <1>10, <1>11 DEF Upto

-----------------------------------------------------------------------------
LEMMA SoundConfStep ==
  ASSUME ConfigInv, Sound, SoundInv, NEW ok \in BOOLEAN,
         Identify(ok) \/ Strings(ok) \/ SetConf(ok)
  PROVE  SoundInv'
  <1>1. UNCHANGED <<device, conf, data, picked, intfs, endps>>
    BY DEF Identify, Strings, SetConf
  <1>2. device.strlen \in 1 .. 255 /\ StringMax \in Nat /\ StringMax >= 127 /\ Len(device.confs) \in Nat
    BY DeviceIs, ParametersAssumption DEF ConfigInv, ConfigTypes, Sound
  <1>3. Characters(device.strlen) \in 0 .. StringMax - 1
    <2> DEFINE len == device.strlen
    <2>1. len \in 1 .. 255
      BY <1>2
    <2>2. Characters(len) = IF len = 1 THEN 0 ELSE (len - 2) \div 2
      BY <2>1 DEF Characters
    <2> HIDE DEF len
    <2>3. \A x \in 0 .. 253 : x \div 2 \in 0 .. 126
      OBVIOUS
    <2>4. len # 1 => len - 2 \in 0 .. 253
      BY <2>1
    <2>5. Characters(len) \in 0 .. 126
      BY <2>2, <2>3, <2>4
    <2>6. Characters(len) \in 0 .. StringMax - 1
      <3>1. \A x \in 0 .. 126 : x \in 0 .. StringMax - 1
        BY <1>2
      <3> QED BY <2>5, <3>1
    <2> QED BY <2>6 DEF len
  <1>4. \/ pc \in Begun /\ pc' \in Begun \cup {"conf", "false"}
        \/ pc = "conf" /\ pc' \in {"true", "false"}
        \/ pc = "conf" /\ picked # 0 /\ pc' = IF intfs = <<>> THEN "undefined" ELSE "drivers"
    <2>1. CASE Identify(ok)
      BY <2>1 DEF Identify, AfterIdentify, Begun
    <2>2. CASE Strings(ok)
      BY <1>3, <2>2 DEF Strings, Begun
    <2>3. CASE SetConf(ok)
      BY <2>3 DEF SetConf
    <2> QED BY <2>1, <2>2, <2>3
  <1>5. CASE pc \in Begun /\ pc' \in Begun \cup {"conf", "false"}
    <2>1. conf' = 1 /\ picked' = 0 /\ Bare' /\ intfs' = <<>> /\ endps' = <<>>
      BY <1>1, <1>5 DEF ConfigInv, ParseAt, Bare
    <2>2. Nodes' = 0 /\ pc' # "parse" /\ pc' # "drivers" /\ pc' # "undefined"
      BY <1>5, <2>1 DEF Nodes, Begun
    <2>3. ASSUME NEW n \in 0 .. MaxNodes PROVE Space(n)'
      <3>1. n \in Nat /\ (conf' - 1) * n = 0
        BY <2>1, <2>3
      <3> QED BY <2>2, <3>1 DEF Space
    <2> QED BY <2>1, <2>2, <2>3 DEF SoundInv
  <1>6. CASE pc = "conf" /\ pc' \in {"true", "false"}
    BY <1>6 DEF SoundInv, Space
  <1>7. CASE pc = "conf" /\ picked # 0 /\ pc' = IF intfs = <<>> THEN "undefined" ELSE "drivers"
    <2>1. Shaped /\ intfs # <<>>
      BY <1>7, ListsAre DEF SoundInv, Shaped
    <2>2. Shaped' /\ pc' = "drivers"
      BY <1>1, <1>7, <2>1 DEF Shaped
    <2> QED BY <2>2 DEF SoundInv, Space
  <1> QED BY <1>4, <1>5, <1>6, <1>7

LEMMA SoundReadStep ==
  ASSUME ConfigInv, Sound, SoundInv, NEW ok \in BOOLEAN, ReadConf(ok)
  PROVE  SoundInv'
  <1>1. /\ UNCHANGED <<device, intfs, endps>> /\ pc = "conf" /\ conf \in 1 .. Len(device.confs)
        /\ conf \in Nat /\ Len(intfs) \in Nat /\ Len(endps) \in Nat
    <2>1. Len(device.confs) \in Nat
      BY DeviceIs DEF ConfigInv, ConfigTypes
    <2> QED BY <2>1, ListsAre DEF ReadConf
  <1>2. Descs(conf) = device.confs[conf].descs /\ Descs(conf) \in Seq(Descriptor) /\ Len(Descs(conf)) \in Nat
    BY <1>1, DeviceIs DEF ConfigInv, ConfigTypes
  <1>3. Nodes' = Nodes /\ Nodes \in Nat
    BY <1>1 DEF Nodes
  <1>4. ASSUME NEW n \in 0 .. MaxNodes, HasRoom(device, n)' PROVE Nodes <= (conf - 1) * n /\ n \in Nat
    <2>1. HasRoom(device, n)
      BY <1>1, <1>4 DEF HasRoom
    <2> QED BY <1>1, <2>1 DEF SoundInv, Space
  <1>5. CASE ok /\ device.confs[conf].fits
    <2>1. pc' = "parse" /\ conf' = conf /\ data' = Descs(conf)
      BY <1>2, <1>5 DEF ReadConf
    <2>2. Descs(conf)' = Descs(conf)
      BY <1>1, <2>1 DEF Descs
    <2>3. Parsed' = 0
      BY <1>2, <2>1, <2>2 DEF Parsed
    <2>4. Takes'
      <3>1. CASE Shaped
        BY <1>1, <3>1 DEF Takes, Shaped
      <3>2. CASE Bare
        <4>1. Bare'
          BY <1>1, <3>2 DEF Bare
        <4>2. ASSUME NEW a \in 1 .. Len(Descs(conf)), NEW b \in 1 .. Len(Descs(conf)),
                     NEW c \in 1 .. Len(Descs(conf))
              PROVE  Shaping(a, b, c)'
          BY <1>2, <2>3, <4>1 DEF Shaping
        <4> QED BY <2>2, <4>2 DEF Takes
      <3> QED BY <1>1, <3>1, <3>2 DEF SoundInv
    <2>5. ASSUME NEW n \in 0 .. MaxNodes, HasRoom(device, n)' PROVE Space(n)'
      <3>1. Nodes <= (conf - 1) * n /\ (conf - 1) * n \in Int
        BY <1>1, <1>4, <2>5
      <3> QED BY <1>3, <2>1, <2>3, <3>1 DEF Space
    <2> QED BY <2>1, <2>4, <2>5 DEF SoundInv
  <1>6. CASE ~(ok /\ device.confs[conf].fits)
    <2>1. conf' = conf + 1 /\ picked' = picked /\ pc' = "conf"
      BY <1>1, <1>6 DEF ReadConf
    <2>2. Shaped' \/ (Bare' /\ picked' = 0)
      BY <1>1, <2>1 DEF SoundInv, Shaped, Bare
    <2>3. ASSUME NEW n \in 0 .. MaxNodes, HasRoom(device, n)' PROVE Space(n)'
      <3>1. Nodes <= (conf - 1) * n /\ (conf' - 1) * n = (conf - 1) * n + n /\ (conf - 1) * n \in Int /\ n \in Nat
        BY <1>1, <1>4, <2>1, <2>3
      <3> QED BY <1>3, <2>1, <3>1 DEF Space
    <2> QED BY <2>1, <2>2, <2>3 DEF SoundInv
  <1> QED BY <1>5, <1>6

LEMMA SoundStep ==
  ASSUME ConfigInv, Sound, SoundInv, [Next]_vars
  PROVE  SoundInv'
  <1>1. CASE \E ok \in BOOLEAN : Identify(ok) \/ Strings(ok) \/ ReadConf(ok) \/ SetConf(ok)
    BY <1>1, SoundConfStep, SoundReadStep
  <1>2. CASE ParseIntf \/ ParseEndp \/ ParseOther
    <2>1. /\ pc' # "undefined" /\ pc' = "parse" => Takes'
          /\ pc' = "parse" => Nodes' <= Nodes + 1 /\ Parsed' = Parsed + 1
          /\ pc' \in {"parse", "false"}
      BY <1>2, DescriptorShapes
    <2>2. UNCHANGED <<device, conf>> /\ pc = "parse" /\ data # <<>>
      BY <1>2 DEF ParseIntf, ParseEndp, ParseOther
    <2>3. ConfigInv'
      BY <1>2, ParserKeeps
    <2>4. Nodes \in Nat /\ Nodes' \in Nat /\ conf \in Nat /\ Parsed \in Nat
      <3>1. Len(intfs)' \in Nat /\ Len(endps)' \in Nat
        BY <2>3 DEF ConfigInv, ConfigTypes
      <3> QED BY <2>2, <3>1, ListsAre, HeadIs DEF Nodes
    <2>5. ASSUME NEW n \in 0 .. MaxNodes, HasRoom(device, n)' PROVE Space(n)'
      <3>1. HasRoom(device, n)
        BY <2>2, <2>5 DEF HasRoom
      <3>2. Nodes <= (conf - 1) * n + Parsed /\ (conf - 1) * n \in Int
        BY <2>2, <2>4, <2>5, <3>1 DEF SoundInv, Space
      <3> QED BY <2>1, <2>2, <2>4, <3>2 DEF Space
    <2> QED BY <2>1, <2>5 DEF SoundInv
  <1>3. CASE ParseEnd
    <2>1. /\ pc = "parse" /\ data = <<>> /\ pc' = "conf" /\ conf' = conf + 1
          /\ UNCHANGED <<device, intfs, endps, picked>>
      BY <1>3 DEF ParseEnd
    <2>2. /\ conf \in 1 .. Len(device.confs) /\ Len(Descs(conf)) \in Nat /\ Parsed = Len(Descs(conf))
          /\ \E a, b, c \in 1 .. Len(Descs(conf)) : Begins(conf, a, b, c)
      BY <2>1, SoundIs DEF Parsed
    <2>3. Shaped
      BY <2>1, <2>2 DEF SoundInv, Takes, Shaping
    <2>4. Shaped'
      BY <2>1, <2>3 DEF Shaped
    <2>5. ASSUME NEW n \in 0 .. MaxNodes, HasRoom(device, n)' PROVE Space(n)'
      <3>1. HasRoom(device, n)
        BY <2>1, <2>5 DEF HasRoom
      <3>2. Nodes <= (conf - 1) * n + Parsed
        BY <2>1, <2>5, <3>1 DEF SoundInv, Space
      <3>3. Parsed <= n
        <4>1. Descs(conf) = device.confs[conf].descs
          BY DEF Descs
        <4> QED BY <2>2, <3>1, <4>1 DEF HasRoom
      <3>4. conf \in Nat /\ n \in Nat /\ (conf' - 1) * n = (conf - 1) * n + n /\ (conf - 1) * n \in Int
        BY <2>1, <2>5, ListsAre
      <3>5. Nodes' = Nodes /\ Nodes \in Nat
        BY <2>1, ListsAre DEF Nodes
      <3> QED BY <2>1, <2>2, <3>2, <3>3, <3>4, <3>5 DEF Space
    <2> QED BY <2>1, <2>4, <2>5 DEF SoundInv
  <1>4. CASE StartDrivers
    <2>1. pc = "drivers" /\ Shaped
      BY <1>4 DEF StartDrivers, SoundInv
    <2>2. intfs[1].endpoints = 1 /\ Len(endps) \in Nat /\ Len(endps) >= 2 /\ endps # <<>>
      BY <2>1, ListsAre DEF Shaped
    <2>3. ChainFrom(intfs[1].endpoints) = [i \in 1 .. Len(endps) |-> i]
      BY <2>2, ChainIs
    <2>4. Len(ChainFrom(intfs[1].endpoints)) >= 2
      BY <2>2, <2>3
    <2>5. pc' = "true"
      <3>1. ~(Len(ChainFrom(intfs[1].endpoints)) < 2)
        <4>1. Len(ChainFrom(intfs[1].endpoints)) = Len(endps)
          BY <2>2, <2>3
        <4> QED BY <2>2, <4>1
      <3> QED BY <1>4, <2>2, <3>1 DEF StartDrivers
    <2> QED BY <2>5 DEF SoundInv, Space
  <1>5. CASE UNCHANGED vars
    <2>1. UNCHANGED <<device, fails, pc, conf, data, picked, intfs, endps, drivers>>
      BY <1>5 DEF vars
    <2> QED BY <2>1 DEF SoundInv, Space, Nodes, Takes, Shaped, Shaping, Bare, Parsed, Descs,
                        Descs, HasRoom, Begins
  <1> QED BY <1>1, <1>2, <1>3, <1>4, <1>5 DEF Next, Parse

LEMMA SoundInitial ==
  ASSUME Init
  PROVE  SoundInv
  <1>1. pc = "first"
    BY DEF Init
  <1> QED BY <1>1 DEF SoundInv, Space

(* A device stays what it is. *)
LEMMA DeviceStays ==
  ASSUME [Next]_vars
  PROVE  device' = device
  BY DEF Next, vars, Parse, Identify, Strings, ReadConf, SetConf,
         ParseIntf, ParseEndp, ParseOther, ParseEnd, StartDrivers

LEMMA SoundStays ==
  ASSUME device' = device
  PROVE  Sound' = Sound
  BY DEF Sound, NoEmptyDescriptor, EndpointsBehindInterface, Begins, Descs

SoundsInv == ConfigInv /\ (Sound => SoundInv)
LEMMA ParserSound == Spec => []SoundsInv
  <1>1. Init => SoundsInv
    BY ConfigInitial, SoundInitial DEF SoundsInv
  <1>2. SoundsInv /\ [Next]_vars => SoundsInv'
    BY ConfigStep, SoundStep, DeviceStays, SoundStays DEF SoundsInv
  <1> QED BY <1>1, <1>2, PTL DEF Spec

(* UsbDevInit follows no pointer that was not set, and writes past no       *)
(* buffer (usbd.cpp:133-324), for a device whose descriptors have a length  *)
(* and whose configurations begin with an interface of two endpoints,       *)
(* whatever else it says and whichever requests fail.                       *)
THEOREM SoundDevicesSafeHolds == Spec => []SoundDevicesSafe
  <1>1. SoundsInv => SoundDevicesSafe
    BY DEF SoundsInv, SoundInv, SoundDevicesSafe
  <1> QED BY <1>1, ParserSound, PTL

-----------------------------------------------------------------------------
(* The recursion of Among has a solution: the descriptors of a type, one     *)
(* more at a time.                                                           *)
LEMMA AmongIs ==
  ASSUME device \in Devices, NEW i \in 1 .. Len(device.confs), NEW t
  PROVE  LET f == Among(i, t)
         IN  /\ \A n \in 0 .. Len(Descs(i)) : f[n] \in Seq(Descriptor)
             /\ f[0] = <<>>
             /\ \A n \in 1 .. Len(Descs(i)) :
                  f[n] = IF Descs(i)[n].type = t THEN Append(f[n - 1], Descs(i)[n]) ELSE f[n - 1]
  <1> DEFINE L == Len(Descs(i))
             D == Descriptor
             More(s, n) == IF Descs(i)[n].type = t THEN Append(s, Descs(i)[n]) ELSE s
             Good(m, f) == f[0] = <<>> /\ \A n \in 1 .. m : f[n] = More(f[n - 1], n)
             S == {m \in Nat : m <= L => \E f \in [0 .. m -> Seq(D)] : Good(m, f)}
  <1>1. L \in Nat /\ Descs(i) \in Seq(D) /\ Descs(i) = Descs(i)
    BY DeviceIs DEF Descs
  <1>2. ASSUME NEW s \in Seq(D), NEW n \in 1 .. L PROVE More(s, n) \in Seq(D)
    <2> HIDE DEF D
    <2>1. Descs(i)[n] \in D
      BY <1>1
    <2> QED BY <2>1
  <1> HIDE DEF D
  <1>3. 0 \in S
    <2>1. [n \in 0 .. 0 |-> <<>>] \in [0 .. 0 -> Seq(D)] /\ Good(0, [n \in 0 .. 0 |-> <<>>])
      OBVIOUS
    <2> QED BY <2>1
  <1>4. ASSUME NEW m \in Nat, m \in S PROVE m + 1 \in S
    <2>1. SUFFICES ASSUME m + 1 <= L PROVE \E f \in [0 .. m + 1 -> Seq(D)] : Good(m + 1, f)
      <3> HIDE DEF Good, L
      <3> QED BY <1>4
    <2>2. PICK f \in [0 .. m -> Seq(D)] : Good(m, f)
      <3> HIDE DEF Good, L
      <3> QED BY <1>1, <1>4, <2>1
    <2> DEFINE g == [n \in 0 .. m + 1 |-> IF n = m + 1 THEN More(f[m], m + 1) ELSE f[n]]
    <2>3. g \in [0 .. m + 1 -> Seq(D)]
      <3>1. More(f[m], m + 1) \in Seq(D)
        BY <1>1, <1>2, <2>1, <2>2
      <3> HIDE DEF More
      <3> QED BY <2>2, <3>1
    <2>4. Good(m + 1, g)
      <3>1. g[0] = f[0] /\ g[m + 1] = More(f[m], m + 1) /\ \A n \in 0 .. m : g[n] = f[n]
        <4> HIDE DEF More
        <4> QED BY <1>4
      <3>2. f[0] = <<>> /\ \A n \in 1 .. m : f[n] = More(f[n - 1], n)
        BY <2>2
      <3> HIDE DEF More, g
      <3>3. g[m + 1] = More(g[m], m + 1)
        BY <1>4, <3>1
      <3>4. ASSUME NEW n \in 1 .. m PROVE g[n] = More(g[n - 1], n)
        <4>1. n \in 0 .. m /\ n - 1 \in 0 .. m
          BY <1>4
        <4> QED BY <3>1, <3>2, <4>1
      <3>5. ASSUME NEW n \in 1 .. m + 1 PROVE g[n] = More(g[n - 1], n)
        <4>1. n \in 1 .. m \/ (n = m + 1 /\ n - 1 = m)
          BY <1>4
        <4> QED BY <3>3, <3>4, <4>1
      <3> QED BY <3>1, <3>2, <3>5
    <2> HIDE DEF g, Good
    <2> QED BY <2>3, <2>4
  <1>5. L \in S
    <2> HIDE DEF S, L
    <2> QED BY <1>1, <1>3, <1>4, AllNumbers
  <1>6. PICK f \in [0 .. L -> Seq(D)] : Good(L, f)
    BY <1>1, <1>5
  <1> DEFINE Body(w) == [n \in 0 .. L |-> IF n = 0 THEN <<>>
                                         ELSE IF Descs(i)[n].type = t
                                              THEN Append(w[n - 1], Descs(i)[n])
                                         ELSE w[n - 1]]
  <1>7. f = Body(f)
    <2>1. ASSUME NEW n \in 0 .. L PROVE f[n] = Body(f)[n]
      <3>1. CASE n = 0
        BY <1>6, <3>1
      <3>2. CASE n # 0
        <4>1. n \in 1 .. L
          BY <1>1, <3>2
        <4> QED BY <1>6, <3>2, <4>1
      <3> QED BY <3>1, <3>2
    <2>2. f = [n \in 0 .. L |-> f[n]] /\ Body(f) = [n \in 0 .. L |-> Body(f)[n]]
      BY <1>6
    <2> HIDE DEF Body
    <2> QED BY <2>1, <2>2
  <1> DEFINE c == CHOOSE w : w = Body(w)
  <1>8. c = Body(c)
    <2> HIDE DEF Body
    <2> QED BY <1>7
  <1>9. Among(i, t) = c
    BY DEF Among
  <1> HIDE DEF c
  <1>10. c[0] = <<>> /\ \A n \in 1 .. L : c[n] = More(c[n - 1], n)
    <2>1. \A n \in 0 .. L : c[n] = Body(c)[n]
      <3> HIDE DEF Body
      <3> QED BY <1>8
    <2>2. c[0] = <<>>
      BY <1>1, <2>1
    <2>3. ASSUME NEW n \in 1 .. L PROVE c[n] = More(c[n - 1], n)
      <3>1. n \in 0 .. L /\ n # 0
        BY <1>1
      <3> QED BY <2>1, <3>1
    <2> QED BY <2>2, <2>3
  <1> DEFINE T == {n \in Nat : n <= L => c[n] \in Seq(D)}
  <1>11. \A n \in Nat : n \in T
    <2>1. 0 \in T
      <3>1. <<>> \in Seq(D)
        OBVIOUS
      <3> QED BY <1>10, <3>1
    <2>2. ASSUME NEW n \in Nat, n \in T PROVE n + 1 \in T
      <3>1. SUFFICES ASSUME n + 1 <= L PROVE c[n + 1] \in Seq(D)
        OBVIOUS
      <3>2. n + 1 \in 1 .. L /\ (n + 1) - 1 = n /\ c[n] \in Seq(D)
        BY <1>1, <2>2, <3>1
      <3>3. c[n + 1] = More(c[n], n + 1)
        <4> HIDE DEF More
        <4> QED BY <1>10, <3>2
      <3> HIDE DEF More
      <3> QED BY <1>2, <3>2, <3>3
    <2> HIDE DEF T
    <2> QED BY <2>1, <2>2, AllNumbers
  <1>12. \A n \in 0 .. L : c[n] \in Seq(D)
    BY <1>1, <1>11
  <1> QED BY <1>1, <1>9, <1>10, <1>12 DEF D

(* For an ordinary device: the lists are the interfaces and the endpoints   *)
(* among the descriptors parsed so far.                                     *)
Built(n) ==
  LET i == Among(1, "intf")[n]
      e == Among(1, "endp")[n]
  IN  /\ Len(intfs) = Len(i) /\ \A k \in 1 .. Len(i) : intfs[k].class = i[k].class
      /\ Len(endps) = Len(e)
      /\ \A k \in 1 .. Len(e) : endps[k].isin = e[k].isin /\ endps[k].attributes = e[k].attributes
BuiltAll == Built(Len(Descs(1)))
OrdinaryInv ==
  /\ pc # "false"
  /\ pc = "conf" => (conf = 1 /\ Bare) \/ (conf = 2 /\ picked # 0 /\ BuiltAll)
  /\ pc = "parse" => conf = 1 /\ picked # 0 /\ Built(Parsed)
  /\ pc \in {"drivers", "true"} => BuiltAll /\ Shaped
  /\ pc = "true" => drivers = {"hub", "storage"} \cap {OfType(1, "intf")[1].class}

LEMMA AmongStays ==
  ASSUME device' = device
  PROVE  /\ Ordinary' = Ordinary /\ Descs(1)' = Descs(1)
         /\ \A t : Among(1, t)' = Among(1, t) /\ OfType(1, t)' = OfType(1, t)
  <1>1. Sound' = Sound
    BY SoundStays
  <1>2. Descs(1)' = Descs(1) /\ Descs(1)' = Descs(1)
    BY DEF Descs
  <1>3. \A t : Among(1, t)' = Among(1, t)
    BY DEF Among, Descs
  <1>4. \A t : OfType(1, t)' = OfType(1, t)
    BY <1>2, <1>3 DEF OfType
  <1>5. Ordinary' = Ordinary
    BY <1>1, <1>4 DEF Ordinary
  <1> QED BY <1>2, <1>3, <1>4, <1>5

LEMMA BuiltStays ==
  ASSUME UNCHANGED <<device, intfs, endps>>
  PROVE  (\A n : Built(n)' = Built(n)) /\ BuiltAll' = BuiltAll /\ Shaped' = Shaped
  <1>1. \A n : Built(n)' = Built(n)
    BY AmongStays DEF Built
  <1> QED BY <1>1, AmongStays DEF BuiltAll, Built, Shaped

(* No request fails. *)
LEMMA NoneFails ==
  ASSUME ConfigInv, Ordinary, [Next]_vars, fails' = 0
  PROVE  /\ fails = 0
         /\ \A ok \in BOOLEAN : Request(ok) => ok
  <1>1. ~Starves
    BY DEF Ordinary, Sound, Starves
  <1>2. fails \in Nat
    BY DEF ConfigInv, ConfigTypes
  <1>3. \A ok \in BOOLEAN : Request(ok) => fails = 0 /\ ok
    BY <1>1, <1>2 DEF Request
  <1>4. \/ \E ok \in BOOLEAN : Request(ok)
        \/ UNCHANGED fails
    BY DEF Next, vars, Parse, Identify, Strings, ReadConf, SetConf,
         ParseIntf, ParseEndp, ParseOther, ParseEnd, StartDrivers
  <1> QED BY <1>3, <1>4

(* One descriptor of an ordinary device is parsed. *)
LEMMA DescriptorBuilds ==
  ASSUME ConfigInv, Ordinary, SoundInv, OrdinaryInv,
         ParseIntf \/ ParseEndp \/ ParseOther
  PROVE  OrdinaryInv'
  <1>1. /\ pc = "parse" /\ data # <<>> /\ UNCHANGED <<device, fails, conf, picked>>
        /\ conf = 1 /\ picked # 0 /\ Built(Parsed)
    BY DEF ParseIntf, ParseEndp, ParseOther, OrdinaryInv
  <1>2. Sound
    BY DEF Ordinary
  <1>3. /\ Parsed \in Nat /\ Parsed + 1 \in 1 .. Len(Descs(1)) /\ Head(data) = Descs(1)[Parsed + 1]
        /\ 1 \in 1 .. Len(device.confs) /\ Len(Descs(1)) \in Nat
    BY <1>1, HeadIs
  <1>4. pc' # "false"
    <2>1. SUFFICES ASSUME pc' = "false" PROVE FALSE
      OBVIOUS
    <2>2. ParseEndp /\ intfs = <<>> /\ Head(data).type = "endp"
      BY <1>2, <2>1, DescriptorShapes DEF ParseEndp
    <2>3. PICK a, b, c \in 1 .. Len(Descs(conf)) : Begins(conf, a, b, c)
      BY <1>1, <1>2, SoundIs
    <2>4. Shaping(a, b, c)
      BY <1>1, <2>2, <2>3 DEF SoundInv, Takes, Shaped
    <2>5. Parsed < a
      BY <1>1, <1>3, <2>2, <2>4 DEF Shaping
    <2>6. Head(data).type # "endp"
      <3>1. Descs(1)[a].type = "intf" /\ \A j \in 1 .. a - 1 : Descs(1)[j].type = "other"
        BY <1>1, <2>3 DEF Begins, Descs
      <3>2. Parsed + 1 = a \/ Parsed + 1 \in 1 .. a - 1
        BY <1>3, <2>5
      <3> QED BY <1>3, <3>1, <3>2
    <2> QED BY <2>2, <2>6
  <1>5. pc' = "parse" /\ Parsed' = Parsed + 1
    BY <1>2, <1>4, DescriptorShapes
  <1> DEFINE d == Descs(1)[Parsed + 1]
             Took(t, n) == Among(1, t)[n]
  <1>6. /\ \A t : Took(t, Parsed) \in Seq(Descriptor) /\ Len(Took(t, Parsed)) \in Nat
        /\ \A t : Took(t, Parsed + 1) = IF d.type = t THEN Append(Took(t, Parsed), d) ELSE Took(t, Parsed)
    <2>1. Parsed \in 0 .. Len(Descs(1)) /\ (Parsed + 1) - 1 = Parsed
      BY <1>3
    <2>2. ASSUME NEW t
          PROVE  /\ Took(t, Parsed) \in Seq(Descriptor)
                 /\ Took(t, Parsed + 1) = IF d.type = t THEN Append(Took(t, Parsed), d) ELSE Took(t, Parsed)
      <3>1. /\ \A n \in 0 .. Len(Descs(1)) : Took(t, n) \in Seq(Descriptor)
            /\ \A n \in 1 .. Len(Descs(1)) :
                 Took(t, n) = IF Descs(1)[n].type = t THEN Append(Took(t, n - 1), Descs(1)[n]) ELSE Took(t, n - 1)
        BY <1>3, AmongIs DEF ConfigInv, ConfigTypes
      <3> HIDE DEF Took
      <3> QED BY <1>3, <2>1, <3>1
    <2> HIDE DEF Took, d
    <2>3. ASSUME NEW t PROVE Len(Took(t, Parsed)) \in Nat
      BY <2>2
    <2> QED BY <2>2, <2>3
  <1> DEFINE i == Took("intf", Parsed)
             e == Took("endp", Parsed)
             BuiltBy(is, es) ==
               /\ Len(intfs) = Len(is) /\ \A k \in 1 .. Len(is) : intfs[k].class = is[k].class
               /\ Len(endps) = Len(es)
               /\ \A k \in 1 .. Len(es) : endps[k].isin = es[k].isin /\ endps[k].attributes = es[k].attributes
             New(is, es) ==
               /\ Len(intfs') = Len(is) /\ \A k \in 1 .. Len(is) : intfs'[k].class = is[k].class
               /\ Len(endps') = Len(es)
               /\ \A k \in 1 .. Len(es) : endps'[k].isin = es[k].isin /\ endps'[k].attributes = es[k].attributes
  <1>7. BuiltBy(i, e)
    BY <1>1 DEF Built
  <1>8. d \in Descriptor
    BY <1>1, <1>3, HeadIs
  <1>9. \A s \in Seq(Descriptor) :
          /\ Len(Append(s, d)) = Len(s) + 1 /\ Append(s, d)[Len(s) + 1] = d
          /\ \A k \in 1 .. Len(s) : Append(s, d)[k] = s[k]
    <2> HIDE DEF d
    <2> QED BY <1>8
  <1>10. Len(intfs) + Len(endps) # MaxNodes
    BY <1>1, HasSpace, ListsAre, ParametersAssumption DEF Nodes
  <1>11. i \in Seq(Descriptor) /\ e \in Seq(Descriptor) /\ Len(i) \in Nat /\ Len(e) \in Nat
    BY <1>6
  <1>12. New(Took("intf", Parsed + 1), Took("endp", Parsed + 1))
    <2>1. CASE ParseIntf
      <3>1. d.type = "intf" /\ endps' = endps
        BY <1>3, <2>1 DEF ParseIntf
      <3>2. /\ Len(intfs') = Len(intfs) + 1 /\ intfs'[Len(intfs) + 1].class = d.class
            /\ \A k \in 1 .. Len(intfs) : intfs'[k] = intfs[k]
        BY <1>3, <1>10, <2>1, ParseIntfIs DEF ParseIntf
      <3>3. Took("intf", Parsed + 1) = Append(i, d) /\ Took("endp", Parsed + 1) = e
        BY <1>6, <3>1
      <3> HIDE DEF i, e, d, Took
      <3>4. New(Append(i, d), e)
        <4>1. Len(Append(i, d)) = Len(i) + 1 /\ Append(i, d)[Len(i) + 1] = d
              /\ \A k \in 1 .. Len(i) : Append(i, d)[k] = i[k]
          BY <1>9, <1>11
        <4>2. \A k \in 1 .. Len(i) + 1 : k = Len(i) + 1 \/ k \in 1 .. Len(i)
          BY <1>11
        <4> QED BY <1>7, <3>1, <3>2, <4>1, <4>2
      <3> HIDE DEF New
      <3> QED BY <3>3, <3>4
    <2>2. CASE ParseEndp
      <3>1. d.type = "endp"
        BY <1>3, <2>2 DEF ParseEndp
      <3>2. /\ Len(intfs') = Len(intfs) /\ \A k \in 1 .. Len(intfs) : intfs'[k].class = intfs[k].class
            /\ Len(endps') = Len(endps) + 1
            /\ \A k \in 1 .. Len(endps) + 1 :
                 /\ endps'[k].isin = IF k = Len(endps) + 1 THEN d.isin ELSE endps[k].isin
                 /\ endps'[k].attributes = IF k = Len(endps) + 1 THEN d.attributes ELSE endps[k].attributes
        <4>1. Head(data) = d
          BY <1>3
        <4> HIDE DEF d
        <4> QED BY <1>1, <1>4, <1>5, <1>10, <2>2, <4>1, ParseEndpIs
      <3>3. Took("intf", Parsed + 1) = i /\ Took("endp", Parsed + 1) = Append(e, d)
        BY <1>6, <3>1
      <3> HIDE DEF i, e, d, Took
      <3>4. New(i, Append(e, d))
        <4>1. Len(Append(e, d)) = Len(e) + 1 /\ Append(e, d)[Len(e) + 1] = d
              /\ \A k \in 1 .. Len(e) : Append(e, d)[k] = e[k]
          BY <1>9, <1>11
        <4>2. \A k \in 1 .. Len(e) + 1 : k = Len(e) + 1 \/ (k # Len(e) + 1 /\ k \in 1 .. Len(e))
          BY <1>11
        <4>3. Len(intfs') = Len(i) /\ \A k \in 1 .. Len(i) : intfs'[k].class = i[k].class
          BY <1>7, <3>2
        <4>4. Len(endps) = Len(e) /\ \A k \in 1 .. Len(e) : endps[k].isin = e[k].isin /\ endps[k].attributes = e[k].attributes
          BY <1>7
        <4>5. ASSUME NEW k \in 1 .. Len(e) + 1
              PROVE  /\ endps'[k].isin = Append(e, d)[k].isin
                     /\ endps'[k].attributes = Append(e, d)[k].attributes
          <5>1. CASE k = Len(e) + 1
            BY <3>2, <4>1, <4>4, <5>1
          <5>2. CASE k # Len(e) + 1
            BY <3>2, <4>1, <4>2, <4>4, <5>2
          <5> QED BY <5>1, <5>2
        <4> QED BY <3>2, <4>1, <4>3, <4>4, <4>5
      <3> HIDE DEF New
      <3> QED BY <3>3, <3>4
    <2>3. CASE ParseOther
      <3>1. d.type = "other" /\ UNCHANGED <<intfs, endps>>
        BY <1>3, <2>3 DEF ParseOther
      <3>2. Took("intf", Parsed + 1) = i /\ Took("endp", Parsed + 1) = e
        BY <1>6, <3>1
      <3> HIDE DEF i, e, Took
      <3> QED BY <1>7, <3>1, <3>2
    <2> QED BY <2>1, <2>2, <2>3
  <1>13. Built(Parsed)'
    BY <1>1, <1>5, <1>12, AmongStays DEF Built
  <1> QED BY <1>1, <1>4, <1>5, <1>13 DEF OrdinaryInv

(* The drivers that are started are those of the only interface. *)
LEMMA DriversServe ==
  ASSUME ConfigInv, Ordinary, SoundInv, OrdinaryInv, StartDrivers
  PROVE  OrdinaryInv'
  <1>1. pc = "drivers" /\ BuiltAll /\ Shaped /\ UNCHANGED <<device, intfs, endps>>
    BY DEF StartDrivers, OrdinaryInv
  <1> DEFINE i == OfType(1, "intf")
             e == OfType(1, "endp")
             c == i[1].class
  <1>2. /\ Len(intfs) = 1 /\ intfs[1].class = c /\ Len(endps) = Len(e) /\ Len(endps) \in Nat /\ Len(endps) >= 2
        /\ \A k \in 1 .. Len(e) : endps[k].attributes = e[k].attributes
    <2>1. i = Among(1, "intf")[Len(Descs(1))] /\ e = Among(1, "endp")[Len(Descs(1))] /\ Len(i) = 1
      BY DEF OfType, Ordinary, Descs
    <2> HIDE DEF i, e
    <2>2. Len(intfs) = Len(i) /\ \A k \in 1 .. Len(i) : intfs[k].class = i[k].class
      BY <1>1, <2>1 DEF BuiltAll, Built
    <2>3. Len(endps) = Len(e) /\ \A k \in 1 .. Len(e) : endps[k].attributes = e[k].attributes
      BY <1>1, <2>1 DEF BuiltAll, Built
    <2>4. intfs[1].class = i[1].class
      BY <2>1, <2>2
    <2> QED BY <1>1, <2>1, <2>2, <2>3, <2>4, ListsAre DEF Shaped
  <1>3. Last(endps).attributes # 0 /\ endps # <<>> /\ Last(intfs).class = c /\ c \in Classes
    <2>1. Last(e).attributes # 0
      BY DEF Ordinary
    <2>2. endps[Len(endps)].attributes = e[Len(endps)].attributes
      BY <1>2
    <2>3. Last(endps).attributes # 0
      BY <1>2, <2>1, <2>2 DEF Last
    <2>4. intfs \in Seq(Intfs)
      BY DEF ConfigInv, ConfigTypes, Intfs
    <2>5. intfs[1] \in Intfs
      BY <1>2, <2>4
    <2>6. c \in Classes
      BY <1>2, <2>5 DEF Intfs
    <2> HIDE DEF c
    <2> QED BY <1>2, <2>3, <2>6 DEF Last
  <1>4. drivers' = (IF c = "hub" THEN {"hub"} ELSE {}) \cup (IF c = "storage" THEN {"storage"} ELSE {})
    <2> HIDE DEF c
    <2> QED BY <1>2, <1>3 DEF StartDrivers
  <1>5. drivers' = {"hub", "storage"} \cap {c}
    <2> HIDE DEF c
    <2> QED BY <1>3, <1>4 DEF Classes
  <1>6. pc' \in {"true", "undefined"}
    BY DEF StartDrivers
  <1>7. OfType(1, "intf")' = i /\ BuiltAll' /\ Shaped'
    BY <1>1, AmongStays, BuiltStays
  <1> HIDE DEF i
  <1>8. drivers' = {"hub", "storage"} \cap {OfType(1, "intf")'[1].class}
    BY <1>5, <1>7
  <1> QED BY <1>6, <1>7, <1>8 DEF OrdinaryInv

LEMMA OrdinaryStep ==
  ASSUME ConfigInv, Ordinary, SoundInv, OrdinaryInv,
         [Next]_vars, fails' = 0
  PROVE  OrdinaryInv'
  <1>1. \A ok \in BOOLEAN : Request(ok) => ok
    BY NoneFails
  <1>2. /\ Sound /\ Len(device.confs) = 1 /\ device.confs[1].value # 0 /\ device.confs[1].fits
    BY DEF Ordinary
  <1>3. CASE \E ok \in BOOLEAN : Identify(ok) \/ Strings(ok) \/ SetConf(ok)
    <2>1. PICK ok \in BOOLEAN : Identify(ok) \/ Strings(ok) \/ SetConf(ok)
      BY <1>3
    <2>2. UNCHANGED <<device, conf, data, picked, intfs, endps, drivers>>
      BY <2>1 DEF Identify, Strings, SetConf
    <2>3. SoundInv'
      BY <1>2, <2>1, SoundConfStep
    <2>4. \/ pc \in Begun /\ pc' \in Begun \cup {"conf", "undefined"}
          \/ pc = "conf" /\ conf > Len(device.confs) /\ pc' \in {"undefined", "drivers"}
          \/ pc = "conf" /\ conf > Len(device.confs) /\ picked = 0
      <3>1. CASE Identify(ok)
        BY <1>1, <3>1 DEF Identify, AfterIdentify, Begun
      <3>2. CASE Strings(ok)
        BY <3>2 DEF Strings, Begun
      <3>3. CASE SetConf(ok)
        BY <1>1, <3>3 DEF SetConf
      <3> QED BY <2>1, <3>1, <3>2, <3>3
    <2>5. CASE pc \in Begun /\ pc' \in Begun \cup {"conf", "undefined"}
      <3>1. conf' = 1 /\ Bare'
        BY <2>2, <2>5 DEF ConfigInv, ParseAt, Bare
      <3> QED BY <2>5, <3>1 DEF OrdinaryInv, Begun
    <2>6. CASE pc = "conf" /\ conf > Len(device.confs)
      <3>1. picked # 0 /\ BuiltAll
        BY <1>2, <2>6 DEF OrdinaryInv
      <3>2. BuiltAll' /\ pc' \in {"undefined", "drivers"}
        BY <2>2, <2>4, <2>6, <3>1, BuiltStays DEF Begun
      <3> QED BY <2>3, <3>2 DEF OrdinaryInv, SoundInv
    <2> QED BY <2>4, <2>5, <2>6
  <1>4. CASE \E ok \in BOOLEAN : ReadConf(ok)
    <2>1. PICK ok \in BOOLEAN : ReadConf(ok)
      BY <1>4
    <2>2. ok /\ pc = "conf" /\ conf = 1 /\ UNCHANGED <<device, intfs, endps>> /\ Bare
      BY <1>1, <1>2, <2>1 DEF ReadConf, OrdinaryInv
    <2>3. picked = 0
      BY <2>2 DEF SoundInv, Shaped, Bare
    <2>4. pc' = "parse" /\ picked' # 0 /\ conf' = 1 /\ data' = Descs(1)
      BY <1>2, <2>1, <2>2, <2>3 DEF ReadConf, Descs
    <2>5. Parsed' = 0
      <3>1. Descs(1)' = Descs(1) /\ Len(Descs(1)) \in Nat
        BY <1>2, <2>2, AmongStays, DeviceIs DEF ConfigInv, ConfigTypes
      <3> QED BY <2>4, <3>1 DEF Parsed, Descs
    <2>6. Built(0)
      <3>1. 1 \in 1 .. Len(device.confs)
        BY <1>2
      <3>2. Among(1, "intf")[0] = <<>> /\ Among(1, "endp")[0] = <<>>
        BY <3>1, AmongIs DEF ConfigInv, ConfigTypes
      <3> QED BY <2>2, <3>2 DEF Built, Bare
    <2>7. Built(Parsed)'
      BY <2>2, <2>5, <2>6, AmongStays DEF Built
    <2> QED BY <2>4, <2>7 DEF OrdinaryInv
  <1>5. CASE ParseIntf \/ ParseEndp \/ ParseOther
    BY <1>5, DescriptorBuilds
  <1>6. CASE ParseEnd
    <2>1. /\ pc = "parse" /\ data = <<>> /\ pc' = "conf" /\ conf = 1 /\ conf' = 2 /\ picked' # 0
          /\ UNCHANGED <<device, intfs, endps>> /\ Built(Parsed)
      BY <1>6 DEF ParseEnd, OrdinaryInv
    <2>2. Parsed = Len(Descs(1))
      BY <1>2, <2>1, SoundIs DEF Parsed
    <2>3. BuiltAll'
      BY <2>1, <2>2, BuiltStays DEF BuiltAll
    <2> QED BY <2>1, <2>3 DEF OrdinaryInv
  <1>7. CASE StartDrivers
    BY <1>7, DriversServe
  <1>8. CASE UNCHANGED vars
    <2>1. UNCHANGED <<device, fails, pc, conf, data, picked, intfs, endps, drivers>>
      BY <1>8 DEF vars
    <2>2. Parsed' = Parsed
      BY <2>1 DEF Parsed, Descs
    <2>3. Built(Parsed)' = Built(Parsed)
      BY <2>1, <2>2, AmongStays DEF Built
    <2> QED BY <2>1, <2>3, AmongStays, BuiltStays DEF OrdinaryInv, Bare
  <1> QED BY <1>3, <1>4, <1>5, <1>6, <1>7, <1>8 DEF Next, Parse

OrdinariesInv == SoundsInv /\ (Ordinary /\ fails = 0 => OrdinaryInv)
LEMMA OrdinaryIsServed ==
  ASSUME OrdinariesInv
  PROVE  OrdinaryDeviceServed
  <1>1. SUFFICES ASSUME Ordinary, pc \in Ended, fails = 0
        PROVE  /\ pc = "true"
               /\ drivers = {"hub", "storage"} \cap {OfType(1, "intf")[1].class}
               /\ LET own == ChainFrom(intfs[1].endpoints)
                  IN [i \in 1 .. Len(own) |-> endps[own[i]].isin]
                       = [i \in 1 .. Len(OfType(1, "endp")) |-> OfType(1, "endp")[i].isin]
    BY DEF OrdinaryDeviceServed
  <1>2. ConfigInv /\ OrdinaryInv /\ SoundInv
    BY <1>1 DEF OrdinariesInv, SoundsInv, Ordinary
  <1>3. pc = "true" /\ BuiltAll /\ Shaped
    BY <1>1, <1>2 DEF OrdinaryInv, SoundInv, Ended
  <1> DEFINE own == ChainFrom(intfs[1].endpoints)
             e == OfType(1, "endp")
  <1>4. Len(endps) \in Nat /\ Len(endps) >= 2 /\ intfs[1].endpoints = 1
    BY <1>2, <1>3, ListsAre DEF Shaped
  <1>5. own = [i \in 1 .. Len(endps) |-> i]
    BY <1>2, <1>4, ChainIs
  <1>6. Len(own) = Len(endps) /\ \A i \in 1 .. Len(endps) : own[i] = i
    BY <1>4, <1>5
  <1>7. Len(endps) = Len(e) /\ \A i \in 1 .. Len(endps) : endps[i].isin = e[i].isin
    BY <1>3 DEF BuiltAll, Built, Descs, OfType
  <1> HIDE DEF own, e
  <1>8. [i \in 1 .. Len(own) |-> endps[own[i]].isin] = [i \in 1 .. Len(e) |-> e[i].isin]
    BY <1>6, <1>7
  <1>9. drivers = {"hub", "storage"} \cap {OfType(1, "intf")[1].class}
    BY <1>2, <1>3 DEF OrdinaryInv
  <1> QED BY <1>3, <1>8, <1>9 DEF own, e

(* An ordinary device, of one configuration with one interface, gets the     *)
(* driver of its class and no other, and its interface has the endpoints of *)
(* its descriptors in their order (usbd.cpp:229-324), unless a request      *)
(* fails.                                                                   *)
THEOREM OrdinaryDeviceServedHolds == Spec => []OrdinaryDeviceServed
  <1>1. Init => OrdinariesInv
    <2> SUFFICES ASSUME Init PROVE OrdinariesInv
      OBVIOUS
    <2>1. SoundsInv
      BY ConfigInitial, SoundInitial DEF SoundsInv
    <2>2. pc = "first"
      BY DEF Init
    <2> QED BY <2>1, <2>2 DEF OrdinariesInv, OrdinaryInv
  <1>2. OrdinariesInv /\ [Next]_vars => OrdinariesInv'
    <2> SUFFICES ASSUME OrdinariesInv, [Next]_vars PROVE OrdinariesInv'
      OBVIOUS
    <2>1. SoundsInv' /\ device' = device
      BY ConfigStep, SoundStep, DeviceStays, SoundStays DEF OrdinariesInv, SoundsInv
    <2>2. ASSUME Ordinary', fails' = 0 PROVE OrdinaryInv'
      <3>1. Ordinary
        BY <2>1, <2>2, AmongStays
      <3>2. ConfigInv /\ SoundInv /\ Sound
        BY <3>1 DEF OrdinariesInv, SoundsInv, Ordinary
      <3>3. fails = 0
        BY <2>2, <3>1, <3>2, NoneFails
      <3>4. OrdinaryInv
        BY <3>1, <3>3 DEF OrdinariesInv
      <3> QED BY <2>2, <3>1, <3>2, <3>4, OrdinaryStep
    <2> QED BY <2>1, <2>2 DEF OrdinariesInv
  <1>3. OrdinariesInv => OrdinaryDeviceServed
    BY OrdinaryIsServed
  <1> QED BY <1>1, <1>2, <1>3, PTL DEF Spec
==============================================================================
