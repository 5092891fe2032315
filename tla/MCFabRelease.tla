---------------------------- MODULE MCFabRelease ----------------------------
(* Each of the four boards with a few versions of its files: a good one and *)
(* some that a check has to refuse or that give other files.  A bad version *)
(* of PCB-01 V2 fails the gate and a check of the assembly files, which     *)
(* alone are made when no full run is asked for.                            *)
EXTENDS FabRelease, TLC

Net(label) == [sheet |-> "/usb", label |-> label]
Pad(num, label) == [num |-> num, net |-> Net(label), drill |-> 0, tented |-> FALSE]
Part(prefix, n, at, pads) == [ref |-> <<prefix, n>>, side |-> "top", at |-> at, pads |-> pads]
Group(comment, prefix, from, to, mpn, lcsc) ==
    [comment |-> comment, foot |-> "smd", mpn |-> mpn, lcsc |-> lcsc,
     spans |-> <<[prefix |-> prefix, from |-> from, to |-> to]>>]
Finding(type, uuid, net, actual) ==
    [type |-> type, items |-> {[uuid |-> uuid, net |-> net]}, actual |-> actual]
Source(comment) == [comment |-> comment, foot |-> "smd", mpn |-> "mpn", lcsc |-> "C1"]

MCTrackWidths == "neck" :> [net |-> "PGND", actual |-> "0.25"]
MCEscapeVias == {"escape"}
MCQuadrant == [at \in {"nw", "ne", "edge"} |-> IF at = "edge" THEN "off" ELSE at]

-----------------------------------------------------------------------------
(* PCB-01 V2.                                                              *)

MCFrozen ==
    [refs |-> Numbered("C", {1, 2, 3, 44, 45}) \cup Numbered("J", 1 .. 3) \cup
              Numbered("R", {58, 59}) \cup Numbered("U", {1, 8, 13, 14}) \cup {<<"NT", 1>>},
     nets |-> {[label |-> "USB_DP", ends |-> {<<<<"U", 13>>, "1">>, <<<<"R", 58>>, "1">>}],
               [label |-> "AGND", ends |-> {<<<<"U", 13>>, "3">>, <<<<"U", 14>>, "3">>}]}]

V2Nets ==
    {[sheet |-> "/usb", label |-> "USB_DP", ends |-> {<<<<"U", 13>>, "1">>, <<<<"R", 58>>, "1">>}],
     [sheet |-> "/usb", label |-> "unconnected", ends |-> {<<<<"U", 8>>, "1">>}],
     [sheet |-> "/usb", label |-> "AGND", ends |-> {<<<<"U", 13>>, "3">>, <<<<"U", 14>>, "3">>}],
     [sheet |-> "/", label |-> "AGND", ends |-> {<<<<"C", n>>, "2">> : n \in {1, 2, 3, 44, 45}}]}

V2Sch ==
    [erc |-> {}, nets |-> V2Nets,
     groups |-> <<Group("bulk", "C", 1, 3, "mpn", "C2"), Group("shunt", "C", 44, 45, "", ""),
                  Group("usb", "J", 1, 3, "", ""), Group("27R", "R", 58, 59, "mpn", "C3"),
                  Group("mcu", "U", 1, 1, "mpn", "C4"), Group("vco", "U", 8, 8, "", ""),
                  Group("esd", "U", 13, 14, "mpn", "C5"), Group("tie", "NT", 1, 1, "", "")>>]

Pofv == [num |-> "41", net |-> Net("PGND"), drill |-> 300, tented |-> TRUE]

V2Parts ==
    <<Part("U", 1, "nw", <<Pad("41", "PGND")>> \o [i \in 1 .. 12 |-> Pofv]),
      Part("U", 13, "ne", <<Pad("1", "USB_DP"), Pad("2", "USB_DN"), Pad("3", "AGND")>>),
      Part("U", 14, "ne", <<Pad("1", "USB_CC1"), Pad("2", "USB_CC2"), Pad("3", "AGND")>>),
      Part("R", 58, "ne", <<>>), Part("C", 3, "nw", <<>>), Part("C", 44, "ne", <<>>),
      Part("J", 1, "ne", <<Pad("1", "24V")>>), Part("TP", 1, "nw", <<Pad("1", "3V3")>>),
      Part("FID", 1, "nw", <<>>), Part("H", 1, "nw", <<>>), Part("R", 59, "ne", <<>>)>>

V2Board ==
    [findings |-> {Finding("track_width", "neck", "PGND", "0.25"),
                   Finding("via_diameter", "escape", "PGND", "0.6000")},
     loose |-> {}, parts |-> V2Parts, npth |-> FALSE, stack |-> StackNames, bounds |-> "frozen"]

-----------------------------------------------------------------------------
(* The other boards.                                                       *)

V1Sch ==
    [erc |-> {}, nets |-> {},
     groups |-> <<Group("cap", "C", 1, 2, "", ""), Group("timing", "C", 34, 34, "", ""),
                  Group("conn", "J", 1, 2, "", ""), Group("swd", "J", 7, 7, "", ""),
                  Group("vco", "U", 8, 8, "", ""), Group("10k", "R", 1, 2, "", ""),
                  Group("pad", "TP", 1, 1, "", "")>>]

V1Board ==
    [V2Board EXCEPT !.parts = <<Part("R", 1, "nw", <<>>), Part("R", 2, "nw", <<>>),
                                Part("TP", 1, "nw", <<>>), Part("J", 7, "nw", <<>>)>>]

BareSch == [erc |-> {}, nets |-> {}, groups |-> <<>>]
BareBoard == [V2Board EXCEPT !.findings = {}, !.parts = <<>>]

MCLayouts ==
    [id \in {"routed", "slotted", "narrow", "v1", "v1twin", "v1new",
             "bare", "bareslot", "bareloose", "barefinding"} |->
        CASE id = "routed" -> V2Board
          [] id = "slotted" -> [V2Board EXCEPT !.npth = TRUE]
          [] id = "narrow" -> [V2Board EXCEPT !.findings = @ \cup {Finding("track_width", "other", "PGND", "0.25")},
                                              !.parts = SubSeq(@, 1, Len(@) - 1)]
          [] id = "v1" -> V1Board
          [] id = "v1twin" -> [V1Board EXCEPT !.parts = @ \o <<@[1]>>]
          [] id = "v1new" -> [V1Board EXCEPT !.parts = @ \o <<Part("R", 3, "nw", <<>>)>>]
          [] id = "bare" -> BareBoard
          [] id = "bareslot" -> [BareBoard EXCEPT !.npth = TRUE]
          [] id = "bareloose" -> [BareBoard EXCEPT !.loose = {"sda"}]
          [] OTHER -> [BareBoard EXCEPT !.findings = V2Board.findings]]

MCSchematics ==
    [id \in {"none", "drawn", "unpriced", "rewired", "v1", "v1more", "bare", "bareerc"} |->
        CASE id = "drawn" -> V2Sch
          [] id = "unpriced" -> [V2Sch EXCEPT !.groups[4].mpn = "", !.groups[4].lcsc = "",
                                              !.erc = {"pin_not_driven"}]
          [] id = "rewired" -> [V2Sch EXCEPT !.nets = {n \in @ : n.label # "USB_DP"}]
          [] id = "v1" -> V1Sch
          [] id = "v1more" -> [V1Sch EXCEPT !.groups[6].spans[1].to = 3]
          [] id = "bareerc" -> [BareSch EXCEPT !.erc = {"pin_not_driven"}]
          [] OTHER -> BareSch]

MCProbeMaps ==
    [id \in {"probes", "moved"} |->
        [points |-> {[ref |-> <<"TP", 1>>, at |-> IF id = "moved" THEN "ne" ELSE "nw", label |-> "3V3"]},
         connectors |-> {[ref |-> <<"J", 1>>, pins |-> "1" :> "24V"]}]]

MCSourceMaps ==
    [id \in {"prices", "twice"} |-> IF id = "prices" THEN <<Source("27R")>> ELSE <<Source("27R"), Source("27R")>>]

Only(pcbs, schs) ==
    [f \in DiskFiles |-> CASE f = "pcb" -> pcbs [] f = "sch" -> schs
                           [] f = "doc" -> <<"text">> [] OTHER -> <<"none">>]

MCVersions ==
    [k \in Kinds |->
        CASE k = "pcb-01" -> [Only(<<"v1", "v1twin", "v1new">>, <<"v1", "v1more">>)
                                EXCEPT !["map"] = <<"none", "twice">>]
          [] k = "pcb-02" -> Only(<<"bare", "bareslot">>, <<"bare">>)
          [] k = "pcb-03" -> [Only(<<"bare", "bareslot", "bareloose", "barefinding">>, <<"bare", "bareerc">>)
                                EXCEPT !["doc"] = <<"text", "none">>]
          [] k = "pcb-01-v2" ->
               [f \in DiskFiles |->
                   CASE f = "pcb" -> <<"routed", "slotted", "narrow">>
                     [] f = "sch" -> <<"drawn", "unpriced", "rewired">>
                     [] f = "probes" -> <<"probes">>
                     [] f = "map" -> <<"prices", "none">>
                     [] f = "doc" -> <<"text">>]]
=============================================================================
