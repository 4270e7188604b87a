------------------------------ MODULE MCCodec -------------------------------
(* Codec on chosen values: the least and the greatest of every field, and  *)
(* the first one out of range.                                             *)
EXTENDS Codec

Of(n, octet) == [i \in 1 .. n |-> octet]

MCChannels == {0, 1, 255, 256, 4095, 4096}
MCAddrs == {<<>>, <<9>>, <<0, 1>>, <<1, 2, 3>>, Of(15, 9)}
MCFacilities ==
    {<<>>, <<PacketSize(128, 4096)>>, <<PacketSize(16, 100)>>, <<WindowSize(1, 127)>>,
     <<WindowSize(2, 0)>>, <<WindowSize(128, 2)>>,
     <<PacketSize(512, 2048), WindowSize(7, 2), Generic(1, <<255>>)>>,
     <<Generic(63, <<0>>), Generic(64, <<1, 2>>), Generic(191, <<1, 2, 3>>)>>,
     <<Generic(192, <<>>), Generic(201, <<7, 8>>), Generic(193, <<0>>)>>,
     <<Generic(5, <<1>>), WindowSize(2, 2), Generic(5, <<1>>)>>,
     <<Generic(255, Of(240, 3))>>, <<Generic(255, Of(253, 3))>>, <<Generic(255, Of(254, 3))>>}
MCUserData == {<<>>, <<0>>, <<1, 0, 0, 0>>, Of(16, 255), Of(128, 7)}

MCBlocks == [called_addr : MCAddrs, calling_addr : {<<>>, <<5>>, Of(15, 0)},
             facilities : MCFacilities, user_data : MCUserData]
            \cup [called_addr : {<<>>, <<1>>}, calling_addr : {<<>>}, facilities : {<<>>},
                  user_data : {Of(n, 4) : n \in 251 .. 255}]
MCNoBlocks == [called_addr : {<<>>}, calling_addr : {<<>>}, facilities : {<<>>},
               user_data : {<<>>}]

MCHead(type, modulos, channels) == [type : {type}, modulo : modulos, channel : channels]
MCBoth == {Normal, Extended}
Together(heads, bodies) == {h @@ b : h \in heads, b \in bodies}

MCNumbers == {0, 1, 6, 7, 8, 16, 126, 127, 128}
MCPackets ==
    Together(MCHead("CallRequest", MCBoth, {1}) \cup MCHead("CallAccept", {Normal}, {1}), MCBlocks)
    \cup Together(MCHead("CallAccept", MCBoth, MCChannels), MCNoBlocks)
    \cup Together(MCHead("ClearRequest", {Normal}, {1, 4095}),
                  Together([cause : {0, 13}, diagnostic : {0, 67}],
                           MCNoBlocks \cup {b \in MCBlocks : b.calling_addr = <<>>}))
    \cup Together(MCHead("ClearConfirm", {Extended}, {0}),
                  [called_addr : MCAddrs, calling_addr : MCAddrs, facilities : MCFacilities])
    \cup Together(MCHead("Data", MCBoth, {1, 4095}),
                  [send_seq : MCNumbers, recv_seq : MCNumbers, qualifier : BOOLEAN,
                   delivery : BOOLEAN, more : BOOLEAN, user_data : {<<>>, <<2, 1>>}])
    \cup Together(MCHead("Data", MCBoth, {1}),
                  [send_seq : {7}, recv_seq : {0}, qualifier : {TRUE}, delivery : {FALSE},
                   more : {TRUE}, user_data : {Of(4096, 1)}])
    \cup Together(MCHead("ReceiveReady", MCBoth, MCChannels)
                  \cup MCHead("ReceiveNotReady", MCBoth, MCChannels), [recv_seq : MCNumbers])
    \cup Together(MCHead("ResetRequest", MCBoth, MCChannels),
                  [cause : {0, 5}, diagnostic : {0, 1, 255}])
    \cup MCHead("ResetConfirm", MCBoth, MCChannels)

(* Any identifier with any type; then the octets of a call's packets, of   *)
(* which some are cut short, too long, out of range or twice the same.     *)
MCFrames == {<<>>, <<16>>, <<16, 1>>}
            \cup {<<g * 16, 1, t>> \o more : g \in 0 .. 15, t \in Octet,
                                          more \in {<<>>, <<0>>, <<3>>, <<2, 0>>, <<0, 0, 0>>}}
MCCallHeaders == {<<g * 16, 1, t>> : g \in {1, 2, 5, 9}, t \in {11, 15, 23}}
                 \cup {<<g * 16, 1, 19, 0>> \o d : g \in {1, 2, 5}, d \in {<<0>>, <<7>>}}
MCPieces == {<<0>>, <<17, 18>>, <<1, 19>>, <<32, 161>>, <<33, 18, 48>>, <<255>>,
             <<3, 67, 1, 127>>, <<3, 67, 0, 2>>, <<3, 66, 7, 13>>, <<3, 66, 4, 12>>,
             <<6, 67, 1, 2, 67, 1, 2>>, <<2, 192, 0>>, <<3, 193, 1, 9>>, <<1>>, <<1, 160>>,
             <<4, 1, 5, 1, 6>>, <<2, 193, 1>>}

MCMessageHeads == 0 .. 7
MCMessageOctets == {<<n>> : n \in {0, 1, 2, 3, 127, 128, 130, 255}}

MCAnyParams == (2 :> 1) @@ (3 :> 2) @@ (4 :> 0) @@ (13 :> 5) @@ (15 :> 0)
MCParamSets == {MCAnyParams, MCAnyParams @@ (16 :> 127) @@ (17 :> 24) @@ (18 :> 18)}
MCPairs == {2, 3, 4, 13, 16, 99} \X {0, 1, 7, 8, 127, 128}
MCRequests == {SetRead(r) : r \in SeqOf(MCPairs, 2) \ {<<>>}}
              \cup {Set(r) : r \in SeqOf(MCPairs, 2) \ {<<>>}}
              \cup {Read(r) : r \in SeqOf({2, 4, 13, 18, 99, 127}, 3)}
MCAnswers == {Value(p, v) : p \in {2, 127}, v \in {0, 1, 2, 255}}
             \cup {Refusal(p, e) : p \in {2, 0, 127}, e \in DOMAIN ErrorCode}
MCResponses == SeqOf(MCAnswers, 2)

MCCallData == {<<>>, <<1>>, <<0, 0>>, Of(11, 1), Of(12, 255), Of(13, 0)}

MCFacilityItems == {Facility("R", <<>>), Facility("N", <<"1", "*">>)}
MCAddrItems == {Full(<<"1">>), Full(<<"0", "9">>), Abbrev(<<"P">>), Abbrev(<<"a", "-", "D">>)}
MCSelections == [facilities : SeqOf(MCFacilityItems, 2), addrs : SeqOf(MCAddrItems, 3) \ {<<>>},
                 call_user_data : {<<>>, <<"1">>, <<"-", ",", "p">>, <<"*", ".">>}]
MCNumberLists == SeqOf({0, 9, 10, 99, 100, 255}, 2)
MCPairLists == SeqOf({0, 15, 255} \X {0, 105, 255}, 2) \ {<<>>}
MCCommands == {Command("Selection", s) : s \in MCSelections}
              \cup {Command(k, l) : k \in {"Read", "RemoteRead"}, l \in MCNumberLists}
              \cup {Command(k, l) : k \in {"Set", "SetRead", "RemoteSetRead"}, l \in MCPairLists}
MCSeparators == {"*", "P", "D"}
MCBlanks == {<<>>, <<" ">>}
=============================================================================
