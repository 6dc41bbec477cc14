------------------------------ MODULE TopicMatch ------------------------------
(***************************************************************************)
(* Topics, as MQTTClient.c compares them and as Microgear.c sorts them.    *)
(* A topic is a sequence of characters, without the final zero; "/"        *)
(* separates its levels.                                                   *)
(***************************************************************************)
EXTENDS Integers, Sequences, FiniteSets

MQTTPacket_equals(name, filter) == name = filter

(* Where the loop over a "+" leaves the name: the last character of the    *)
(* level it is in.                                                         *)
(* Mutant: the loop is not there.                                          *)
LevelEndAtOnce(name, j) == j

LevelEnd(name, j) ==
  CHOOSE k \in j .. Len(name) :
    /\ k = Len(name) \/ name[k + 1] = "/"
    /\ \A i \in j + 1 .. k : name[i] # "/"

(* One round of the loop with the pointers at i and j: the next j, or 0    *)
(* for a break.                                                            *)
NextChar(filter, i, name, j) ==
  IF \/ name[j] = "/" /\ filter[i] # "/"
     \/ filter[i] \notin {"+", "#", name[j]}
  THEN 0
  ELSE CASE filter[i] = "+" -> LevelEnd(name, j) + 1
         [] filter[i] = "#" -> Len(name) + 1
         [] OTHER           -> j + 1

MatchedFrom(topicFilter, topicName) ==
  LET ended == <<Len(topicFilter) + 1, Len(topicName) + 1>>
      from[p \in (1 .. ended[1]) \X (0 .. ended[2])] ==
        IF p[2] = 0 \/ p[1] = ended[1] \/ p[2] = ended[2]
        THEN p = ended
        ELSE from[<<p[1] + 1, NextChar(topicFilter, p[1], topicName, p[2])>>]
  IN  from

isTopicMatched(topicFilter, topicName) == MatchedFrom(topicFilter, topicName)[<<1, 1>>]

(* How deliverMessage asks an entry of its table.                          *)
Selected(filter, name) == MQTTPacket_equals(name, filter) \/ isTopicMatched(filter, name)

-----------------------------------------------------------------------------
(* The sorting of defaultMsgHandler: a topic of NETPIE itself, one of the  *)
(* application's own notices, behind the "/" that follows the appid, or a  *)
(* message for the host.                                                   *)
firstcharpos(name) ==
  LET slashes == {i \in 2 .. Len(name) : name[i] = "/"}
  IN  IF slashes = {} THEN 1
      ELSE 1 + CHOOSE i \in slashes : \A k \in slashes : i <= k

Route(name) ==
  IF name[1] = "@" THEN "control"
  ELSE IF firstcharpos(name) <= Len(name) /\ name[firstcharpos(name)] = "&" THEN "notice"
  ELSE "message"

-----------------------------------------------------------------------------
(* What a filter means, level by level: "+" stands for any one level, "#"  *)
(* for the rest of the name.                                               *)
Separators(s) == {i \in DOMAIN s : s[i] = "/"}
Depth(s) == Cardinality(Separators(s))

(* The kth separator, or the begin or the end of the text.                 *)
Separator(s, k) ==
  IF k = 0 THEN 0
  ELSE CHOOSE i \in Separators(s) \cup {Len(s) + 1} :
         Cardinality({j \in Separators(s) : j < i}) = k - 1

Level(s, k) == SubSeq(s, Separator(s, k) + 1, Separator(s, k + 1) - 1)

(* The texts isTopicMatched is written for ("assume topic filter and name  *)
(* is in correct format"): a wildcard is a level of its own, never the     *)
(* first one, and "#" the last one; every level of a name that follows a   *)
(* separator has a character.                                              *)
CorrectFilter(filter) ==
  \A i \in DOMAIN filter : filter[i] \in {"+", "#"} =>
    /\ i > 1 /\ filter[i - 1] = "/"
    /\ i = Len(filter) \/ (filter[i] = "+" /\ filter[i + 1] = "/")

CorrectName(name) ==
  \A i \in Separators(name) : i < Len(name) /\ name[i + 1] # "/"

MatchedByLevels(filter, name) ==
  LET open == Level(filter, Depth(filter)) = <<"#">> IN
  /\ IF open THEN Depth(name) >= Depth(filter) ELSE Depth(name) = Depth(filter)
  /\ \A k \in 0 .. Depth(filter) :
       \/ Level(filter, k) = Level(name, k)
       \/ Level(filter, k) = <<"+">>
       \/ open /\ k = Depth(filter)
=============================================================================
