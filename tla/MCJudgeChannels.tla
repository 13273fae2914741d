--------------------------- MODULE MCJudgeChannels ---------------------------
(***************************************************************************)
(* The two channels on which a judge talks to the procurement orchestrator,*)
(* for TLC: the page of the portal and the line of the Lex bot.  Each has  *)
(* an orchestrator of its own and they share no state, so a behaviour is   *)
(* one of the channel the judge uses, the other one being left alone.      *)
(***************************************************************************)
EXTENDS JudgePortal, VoiceChannel

VARIABLE channelUsed

MCInit == PageInit /\ ChannelInit /\ channelUsed \in {"page", "line"}

MCNext ==
    /\ \/ channelUsed = "page" /\ PageNext /\ UNCHANGED channelVars
       \/ channelUsed = "line" /\ ChannelNext /\ UNCHANGED pageVars
    /\ UNCHANGED channelUsed

\* The fairness is PageSpec's; it asks nothing of a line that is used instead.
MCSpec ==
    MCInit /\ [][MCNext]_<<pageVars, channelVars, channelUsed>> /\ WF_pageVars(Settles)
-----------------------------------------------------------------------------
(* The vocabulary, the catalog and the sentences of VoiceChannel *)

MCNumerals == ("5" :> 5 @@ "10" :> 10 @@ "21" :> 21)
MCOnes == [zero |-> 0, one |-> 1, two |-> 2, five |-> 5, seven |-> 7, ten |-> 10, twelve |-> 12]
MCTens == [twenty |-> 20, thirty |-> 30]
MCStem == [drives |-> "drive", adapters |-> "adapter", drinks |-> "drink"]

\* Two of the items of the catalog, as they match.
MCCatalog ==
    ("SSD-IND-960" :> [category |-> "STORAGE", least |-> 1, most |-> 21,
        keywords |-> {<<"industrial", "ssd">>, <<"ssd">>, <<"industrial", "drive">>},
        name |-> {"industrial", "ssd", "960gb"}] @@
     "NIC-10G-X2" :> [category |-> "NETWORKING", least |-> 1, most |-> 200,
        keywords |-> {<<"network", "adapter">>, <<"nic">>, <<"industrial", "nic">>},
        name |-> {"network", "adapter"}])
MCMission == [quantity |-> 20, days |-> 7, categories |-> {"STORAGE", "NETWORKING"}]

Ssd == << <<"industrial", "ssd", "drives">>, "SSD-IND-960">>
Nic == << <<"network", "adapters">>, "NIC-10G-X2">>

\* Quantity and deadline, each with the words for it.
Terms ==
    {<< << <<>>, Nothing>>, << <<"within", "twenty", "one", "days">>, 21>> >>,
     << << <<"twenty", "five">>, 25>>, << <<>>, Nothing>> >>,
     << << <<"10">>, 10>>, << <<"by", "next", "month">>, 30>> >>,
     << << <<"twelve">>, 12>>, << <<"in", "two", "weeks">>, 14>> >>}

Sentence(q, i, w, order) ==
    [words |-> CASE order = "last" -> <<"i", "need">> \o q[1] \o i[1] \o w[1]
                 [] order = "first" -> w[1] \o <<"we", "need">> \o q[1] \o <<"of", "the">> \o i[1],
     sku |-> i[2], quantity |-> q[2], days |-> w[2]]

\* Sentences that name an item, and some that name none or cannot decide.
MCSentences ==
    {Sentence(terms[1], i, terms[2], order) :
        terms \in Terms, i \in {Ssd, Nic}, order \in {"last", "first"}}
    \cup {[words |-> w, sku |-> "none", quantity |-> Nothing, days |-> Nothing] :
            w \in {<<"two", "drinks", "please">>, <<"i", "need", "industrial", "ssd", "or", "network", "adapters">>,
                   <<"twenty", "units">>}}
=============================================================================
