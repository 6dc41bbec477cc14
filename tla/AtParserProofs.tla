---------------------------- MODULE AtParserProofs ----------------------------
(***************************************************************************)
(* The serial line for any lines of the formats, any number of them and    *)
(* any length of the queue: its types, that what is executed is made of    *)
(* the tokens of its own line, and that a clean line runs once, in order   *)
(* and as it was typed.                                                    *)
(***************************************************************************)
EXTENDS AtParser, FiniteSetTheorems, SequenceTheorems, TLAPS

-----------------------------------------------------------------------------
(* A loop that takes no arguments ends at once; no argument is copied      *)
(* behind the separator at which its loop ends.                            *)
Fine(f) ==
  /\ \E n \in Nat : DOMAIN f.copy = 1 .. n
  /\ \A j \in DOMAIN f.copy : f.copy[j] \in 1 .. f.end
  /\ f.end \in Nat

LEMMA FineFormats ==
  /\ Fine(NoArguments)
  /\ \A s : Fine(Arguments(s, <<1>>, 1)) /\ Fine(Arguments(s, <<2>>, 2))
  /\ \A s : Fine(Arguments(s, <<2, 5>>, 5)) /\ Fine(Arguments(s, <<2, 4>>, 4))
  /\ \A s : Fine(Arguments(s, <<2, 5, 8, 11>>, 11)) /\ Fine(Arguments(s, <<1, 3, 6, 9>>, 9))
<1>1. Fine(NoArguments)
  <2>1. DOMAIN NoArguments.copy = 1 .. 0 /\ NoArguments.end = 0
    BY SMT DEF NoArguments, Arguments
  <2> QED BY <2>1, SMT DEF Fine
<1>2. ASSUME NEW s PROVE Fine(Arguments(s, <<1>>, 1)) /\ Fine(Arguments(s, <<2>>, 2))
  <2>1. DOMAIN <<1>> = 1 .. 1 /\ DOMAIN <<2>> = 1 .. 1
    OBVIOUS
  <2> QED BY <2>1, SMT DEF Fine, Arguments
<1>3. ASSUME NEW s PROVE Fine(Arguments(s, <<2, 5>>, 5)) /\ Fine(Arguments(s, <<2, 4>>, 4))
  <2>1. DOMAIN <<2, 5>> = 1 .. 2 /\ DOMAIN <<2, 4>> = 1 .. 2
    OBVIOUS
  <2> QED BY <2>1, SMT DEF Fine, Arguments
<1>4. ASSUME NEW s
      PROVE  Fine(Arguments(s, <<2, 5, 8, 11>>, 11)) /\ Fine(Arguments(s, <<1, 3, 6, 9>>, 9))
  <2>1. DOMAIN <<2, 5, 8, 11>> = 1 .. 4 /\ DOMAIN <<1, 3, 6, 9>> = 1 .. 4
    OBVIOUS
  <2> QED BY <2>1, SMT DEF Fine, Arguments
<1> QED BY <1>1, <1>2, <1>3, <1>4

LEMMA FineNamed ==
  /\ Fine(ECHOMODE) /\ Fine(PUSHMODE) /\ Fine(SETUPWIFI) /\ Fine(CHECKSTATUS_WIFI)
  /\ Fine(CONNECT_TO_SERVER1_BY_CLIENT1) /\ Fine(CONNECT_TO_SERVER2_BY_CLIENT2)
  /\ Fine(DISCONNECT_FROM_SERVER) /\ Fine(CHECKSTATUS_CLIENT)
  /\ Fine(PRINT_TO_SERVER1) /\ Fine(PRINT_TO_SERVER2)
  /\ Fine(READ_DATA_FROM_CLIENT1_BUFFER) /\ Fine(READ_DATA_FROM_CLIENT1_BUFFER_TO_ARDUINO_LIB)
  /\ Fine(READ_DATA_FROM_CLIENT2_BUFFER) /\ Fine(READ_DATA_FROM_CLIENT2_BUFFER_TO_ARDUINO_LIB)
  /\ Fine(CONNECT_TO_NETPIE) /\ Fine(DISCONNECT_FROM_NETPIE)
  /\ Fine(SETUP_TOKEN) /\ Fine(INIT_MICROGEAR) /\ Fine(SET_ALIAS_NAME)
  /\ Fine(PUBLISH) /\ Fine(SUBSCRIBE) /\ Fine(UNSUBSCRIBE) /\ Fine(CHAT)
  /\ Fine(PULL_MESSAGE) /\ Fine(WRITE_FEED)
BY FineFormats, Zenon
   DEF ECHOMODE, PUSHMODE, SETUPWIFI, CHECKSTATUS_WIFI, CONNECT_TO_SERVER1_BY_CLIENT1,
       CONNECT_TO_SERVER2_BY_CLIENT2, DISCONNECT_FROM_SERVER, CHECKSTATUS_CLIENT,
       PRINT_TO_SERVER1, PRINT_TO_SERVER2, READ_DATA_FROM_CLIENT1_BUFFER,
       READ_DATA_FROM_CLIENT1_BUFFER_TO_ARDUINO_LIB, READ_DATA_FROM_CLIENT2_BUFFER,
       READ_DATA_FROM_CLIENT2_BUFFER_TO_ARDUINO_LIB, CONNECT_TO_NETPIE,
       DISCONNECT_FROM_NETPIE, SETUP_TOKEN, INIT_MICROGEAR, SET_ALIAS_NAME, PUBLISH,
       SUBSCRIBE, UNSUBSCRIBE, CHAT, PULL_MESSAGE, WRITE_FEED

LEMMA FormatOf ==
  /\ Command["ATE"] = ECHOMODE
  /\ Command["ATP"] = PUSHMODE
  /\ Command["AT+CW "] = SETUPWIFI
  /\ Command["AT+CW?"] = CHECKSTATUS_WIFI
  /\ Command["AT+CCS1 "] = CONNECT_TO_SERVER1_BY_CLIENT1
  /\ Command["AT+CCS2 "] = CONNECT_TO_SERVER2_BY_CLIENT2
  /\ Command["AT+CD1"] = DISCONNECT_FROM_SERVER
  /\ Command["AT+CD2"] = DISCONNECT_FROM_SERVER
  /\ Command["AT+CCS1?"] = CHECKSTATUS_CLIENT
  /\ Command["AT+CCS2?"] = CHECKSTATUS_CLIENT
  /\ Command["AT+CP1 "] = PRINT_TO_SERVER1
  /\ Command["AT+CP2 "] = PRINT_TO_SERVER2
  /\ Command["AT+CR1 "] = READ_DATA_FROM_CLIENT1_BUFFER
  /\ Command["AT+CRTA1 "] = READ_DATA_FROM_CLIENT1_BUFFER_TO_ARDUINO_LIB
  /\ Command["AT+CR2 "] = READ_DATA_FROM_CLIENT2_BUFFER
  /\ Command["AT+CRTA2 "] = READ_DATA_FROM_CLIENT2_BUFFER_TO_ARDUINO_LIB
  /\ Command["AT+MGCN"] = CONNECT_TO_NETPIE
  /\ Command["AT+MGDC"] = DISCONNECT_FROM_NETPIE
  /\ Command["AT+MGST "] = SETUP_TOKEN
  /\ Command["AT+MGIN "] = INIT_MICROGEAR
  /\ Command["AT+MGSA "] = SET_ALIAS_NAME
  /\ Command["AT+MGP "] = PUBLISH
  /\ Command["AT+MGS "] = SUBSCRIBE
  /\ Command["AT+MGUS "] = UNSUBSCRIBE
  /\ Command["AT+MGC "] = CHAT
  /\ Command["AT+MGPM"] = PULL_MESSAGE
  /\ Command["AT+MGWF "] = WRITE_FEED
BY Zenon DEF Command, KnownWord

LEMMA FormatFacts ==
  ASSUME NEW w \in KnownWord
  PROVE  /\ Fine(Command[w])
         /\ w \in Mode => Command[w].end = 1
         /\ w = "AT+MGWF " => Command[w].end = 9 /\ Command[w].copy = <<1, 3, 6, 9>>
<1>1. Fine(Command[w])
  BY FormatOf, FineNamed, Zenon DEF KnownWord
<1>2. w \in Mode => Command[w] \in {ECHOMODE, PUSHMODE}
  BY FormatOf, Zenon DEF Mode
<1>3. ECHOMODE.end = 1 /\ PUSHMODE.end = 1
  BY DEF Arguments, ECHOMODE, PUSHMODE
<1>4. w = "AT+MGWF " => Command[w] = WRITE_FEED
  BY FormatOf, Zenon
<1>5. WRITE_FEED.end = 9 /\ WRITE_FEED.copy = <<1, 3, 6, 9>>
  BY DEF Arguments, WRITE_FEED
<1>6. w \in Mode => Command[w].end = 1
  BY <1>2, <1>3, Zenon
<1>7. w = "AT+MGWF " => Command[w].end = 9 /\ Command[w].copy = <<1, 3, 6, 9>>
  BY <1>4, <1>5, Zenon
<1> QED BY <1>1, <1>6, <1>7

-----------------------------------------------------------------------------
(* Types.  Tokens are pairs; those that left the host name a line that was *)
(* typed and a place in its text.                                          *)
Piece == Nat \X Nat
Sent == {t \in Piece : t[1] \in 1 .. Len(typed) /\ t[2] \in 1 .. Len(Text(t[1]))}

HostOK ==
  /\ typed \in Seq(Line) /\ Len(typed) <= MaxLine
  /\ position \in Nat
  /\ typed = << >> => position = 0
  /\ typed # << >> => position \in 1 .. Len(Text(Len(typed)))

LineOK ==
  /\ xQueueUART \in Seq(Piece) /\ Len(xQueueUART) <= QueueSize
  /\ \A k \in 1 .. Len(xQueueUART) : xQueueUART[k] \in Sent
  /\ last \in Sent \cup {None}
  /\ dropped \subseteq Sent /\ clean \subseteq 1 .. Len(typed)

Handling ==
  /\ handler \in Sent /\ handler[2] = 1 /\ Word(handler) \in KnownWord
  /\ DOMAIN args = DOMAIN Format.copy

ParserOK ==
  /\ message_sr \in Seq(Piece) /\ message_index \in 0 .. Len(message_sr)
  /\ param \in Nat /\ break_loop \in BOOLEAN
  /\ args \in Seq(Seq(Piece))
  /\ executed \in Seq([line : Nat, args : Seq(Seq(Piece))])
  /\ handler = None \/ Handling

TypeInv == HostOK /\ LineOK /\ ParserOK

LEMMA NoneNotSent == None \notin Sent /\ None \in Piece
BY SMT DEF None, Sent, Piece

LEMMA ShortSeq ==
  ASSUME NEW S, NEW x \in S, NEW y \in S
  PROVE  <<x>> \in Seq(S) /\ <<x, y>> \in Seq(S)
OBVIOUS

(* The text of a line: its word, its body and the line end.                *)
Symbol == STRING \cup {"CR", "LF"}

LEMMA TextOf ==
  ASSUME NEW l \in Line
  PROVE  /\ LineText(l) \in Seq(Symbol) /\ Len(LineText(l)) \in Nat
         /\ Len(LineText(l)) >= 3 /\ LineText(l)[1] = l.word
<1>1. l.word \in Symbol /\ l.body \in Seq(Symbol)
  <2>1. l.word \in STRING /\ l.body \in Seq(STRING)
    BY LineAssumption
  <2> QED BY <2>1, SMT DEF Symbol
<1>2. <<l.word>> \in Seq(Symbol) /\ <<"CR", "LF">> \in Seq(Symbol)
  <2>1. "CR" \in Symbol /\ "LF" \in Symbol
    BY DEF Symbol
  <2> QED BY <1>1, <2>1, ShortSeq
<1>3. /\ <<l.word>> \o l.body \in Seq(Symbol)
      /\ Len(<<l.word>> \o l.body) = 1 + Len(l.body)
      /\ (<<l.word>> \o l.body)[1] = l.word
  BY <1>1, <1>2, ConcatProperties
<1>4. Len(l.body) \in Nat
  BY <1>1, LenProperties
<1> QED BY <1>2, <1>3, <1>4, ConcatProperties, SMT DEF LineText

LEMMA TextAt ==
  ASSUME typed \in Seq(Line), NEW n \in 1 .. Len(typed)
  PROVE  /\ typed[n] \in Line /\ Text(n) = LineText(typed[n])
         /\ Text(n) \in Seq(Symbol) /\ Len(Text(n)) \in Nat /\ Len(Text(n)) >= 3
         /\ Text(n)[1] = typed[n].word
<1>1. typed[n] \in Line
  BY ElementOfSeq
<1> QED BY <1>1, TextOf DEF Text

(* Lines that were typed stay as they are.                                 *)
LEMMA TypedKept ==
  ASSUME typed \in Seq(Line), UNCHANGED typed \/ (\E l \in Line : typed' = Append(typed, l))
  PROVE  /\ typed' \in Seq(Line) /\ Len(typed') \in Nat /\ Len(typed) \in Nat
         /\ Len(typed) <= Len(typed')
         /\ \A n \in 1 .. Len(typed) : n \in 1 .. Len(typed') /\ typed'[n] = typed[n]
         /\ \A n \in 1 .. Len(typed) : Text(n)' = Text(n)
         /\ Sent \subseteq Sent'
<1>1. /\ typed' \in Seq(Line) /\ Len(typed') \in Nat /\ Len(typed) \in Nat
      /\ Len(typed) <= Len(typed')
      /\ \A n \in 1 .. Len(typed) : n \in 1 .. Len(typed') /\ typed'[n] = typed[n]
  <2>0. Len(typed) \in Nat
    BY LenProperties
  <2>1. CASE UNCHANGED typed
    BY <2>0, <2>1
  <2>2. CASE \E l \in Line : typed' = Append(typed, l)
    <3>1. PICK l \in Line : typed' = Append(typed, l)
      BY <2>2
    <3>2. /\ typed' \in Seq(Line) /\ Len(typed') = Len(typed) + 1
          /\ \A n \in 1 .. Len(typed) : typed'[n] = typed[n]
      BY <3>1, AppendProperties
    <3> QED BY <2>0, <3>2, SMT
  <2> QED BY <2>1, <2>2
<1>2. \A n \in 1 .. Len(typed) : Text(n)' = Text(n)
  BY <1>1 DEF Text
<1>3. Sent \subseteq Sent'
  BY <1>1, <1>2 DEF Sent
<1> QED BY <1>1, <1>2, <1>3

(* What the interrupt leaves in the queue.                                 *)
LEMMA ArriveLine ==
  ASSUME TypeInv, NEW n, NEW i, Arrive(n, i), typed' \in Seq(Line), Sent \subseteq Sent',
         Len(typed) \in Nat, Len(typed') \in Nat, Len(typed) <= Len(typed'),
         <<n, i>> \in Sent'
  PROVE  LineOK'
<1> DEFINE t == <<n, i>>
<1>1. /\ xQueueUART \in Seq(Piece) /\ Len(xQueueUART) \in Nat /\ Len(xQueueUART) <= QueueSize
      /\ \A k \in 1 .. Len(xQueueUART) : xQueueUART[k] \in Sent
      /\ dropped \subseteq Sent /\ clean \subseteq 1 .. Len(typed) /\ last \in Sent \cup {None}
      /\ QueueSize \in Nat
  BY BoundAssumption, LenProperties DEF TypeInv, LineOK
<1>2. t \in Piece /\ t \in Sent'
  BY DEF Sent
<1>3. last' \in Sent' \cup {None}
  BY <1>1 DEF Arrive
<1>4. clean' \subseteq 1 .. Len(typed')
  <2>1. 1 .. Len(typed) \subseteq 1 .. Len(typed')
    BY SMT
  <2> QED BY <1>1, <2>1 DEF Arrive
<1>5. dropped' \subseteq Sent'
  BY <1>1, <1>2 DEF Arrive
<1> HIDE DEF t
<1>6. CASE xQueueUART' = Append(xQueueUART, t) /\ Len(xQueueUART) < QueueSize
  <2>1. /\ xQueueUART' \in Seq(Piece) /\ Len(xQueueUART') = Len(xQueueUART) + 1
        /\ \A k \in 1 .. Len(xQueueUART) : xQueueUART'[k] = xQueueUART[k]
        /\ xQueueUART'[Len(xQueueUART) + 1] = t
    BY <1>1, <1>2, <1>6, AppendProperties
  <2>2. \A k \in 1 .. Len(xQueueUART') : k \in 1 .. Len(xQueueUART) \/ k = Len(xQueueUART) + 1
    BY <1>1, <2>1, SMT
  <2>3. Len(xQueueUART') <= QueueSize
    BY <1>1, <1>6, <2>1, SMT
  <2> QED BY <1>1, <1>2, <1>3, <1>4, <1>5, <2>1, <2>2, <2>3 DEF LineOK
<1>7. CASE UNCHANGED xQueueUART
  <2>1. \A k \in 1 .. Len(xQueueUART') : xQueueUART'[k] \in Sent'
    BY <1>1, <1>7
  <2> QED BY <1>1, <1>3, <1>4, <1>5, <1>7, <2>1 DEF LineOK
<1>8. (xQueueUART' = Append(xQueueUART, t) /\ Len(xQueueUART) < QueueSize) \/ UNCHANGED xQueueUART
  BY DEF Arrive, t
<1> QED BY <1>6, <1>7, <1>8

(* The parser does not look at the lines that are typed meanwhile.         *)
LEMMA ParserKept ==
  ASSUME TypeInv, UNCHANGED <<parser, executed>>, Sent \subseteq Sent',
         \A n \in 1 .. Len(typed) : typed'[n] = typed[n]
  PROVE  ParserOK'
<1>1. UNCHANGED <<message_sr, message_index, handler, param, args, break_loop, executed>>
  BY DEF parser
<1>2. Handling => Handling'
  <2> SUFFICES ASSUME Handling PROVE Handling'
    OBVIOUS
  <2>1. handler \in Sent /\ handler[1] \in 1 .. Len(typed)
    BY DEF Handling, Sent
  <2>2. Word(handler)' = Word(handler)
    BY <1>1, <2>1 DEF Word
  <2>3. Format' = Format
    BY <2>2 DEF Format
  <2> QED BY <1>1, <2>1, <2>2, <2>3 DEF Handling
<1> QED BY <1>1, <1>2 DEF TypeInv, ParserOK

LEMMA IsrFacts ==
  ASSUME TypeInv, _uart0_rx_isr
  PROVE  \E n, i \in Nat :
           /\ Arrive(n, i) /\ <<n, i>> \in Sent'
           /\ typed' # << >> /\ n = Len(typed') /\ n \in 1 .. Len(typed') /\ n <= MaxLine
           /\ i \in 1 .. Len(LineText(typed'[n]))
           /\ \/ UNCHANGED typed /\ i = position + 1 /\ n = Len(typed)
              \/ /\ \E l \in Line : typed' = Append(typed, l)
                 /\ Complete /\ i = 1 /\ n = Len(typed) + 1
<1>0. /\ typed \in Seq(Line) /\ position \in Nat /\ Len(typed) \in Nat /\ Len(typed) <= MaxLine
      /\ typed = << >> => position = 0
      /\ typed # << >> => position \in 1 .. Len(Text(Len(typed)))
  BY LenProperties DEF TypeInv, HostOK
<1>1. CASE ~Complete /\ UNCHANGED typed /\ Arrive(Len(typed), position + 1)
  <2>1. typed # << >> /\ position # Len(Text(Len(typed)))
    BY <1>1 DEF Complete
  <2>2. Len(typed) \in 1 .. Len(typed)
    BY <1>0, <2>1, EmptySeq, SMT
  <2>3. Len(Text(Len(typed))) \in Nat
    BY <1>0, <2>2, TextAt
  <2>4. position + 1 \in 1 .. Len(Text(Len(typed))) /\ position + 1 \in Nat
    BY <1>0, <2>1, <2>3, SMT
  <2>5. PICK n \in Nat : n = Len(typed)
    BY <1>0
  <2>6. PICK i \in Nat : i = position + 1
    BY <2>4
  <2>7. typed' = typed /\ n \in 1 .. Len(typed) /\ i \in 1 .. Len(LineText(typed[n]))
    BY <1>1, <2>2, <2>4, <2>5, <2>6 DEF Text
  <2>8. <<n, i>> \in Sent'
    BY <2>7, SMT DEF Sent, Piece, Text
  <2>9. Arrive(n, i)
    BY <1>1, <2>5, <2>6
  <2> QED BY <1>0, <2>1, <2>5, <2>6, <2>7, <2>8, <2>9
<1>2. CASE /\ Complete /\ Len(typed) < MaxLine
           /\ \E l \in Line : typed' = Append(typed, l)
           /\ Arrive(Len(typed) + 1, 1)
  <2>1. PICK l \in Line : typed' = Append(typed, l)
    BY <1>2
  <2>2. typed' \in Seq(Line) /\ Len(typed') = Len(typed) + 1 /\ typed'[Len(typed) + 1] = l
    BY <1>0, <2>1, AppendProperties
  <2>3. PICK n \in Nat : n = Len(typed) + 1
    BY <1>0
  <2>4. Len(LineText(l)) \in Nat /\ Len(LineText(l)) >= 3
    BY TextOf
  <2>5. 1 \in 1 .. Len(LineText(l))
    BY <2>4, SMT
  <2>6. n \in 1 .. Len(typed') /\ typed'[n] = l /\ n = Len(typed') /\ n <= MaxLine
    BY <1>0, <1>2, <2>2, <2>3, BoundAssumption, SMT
  <2>7. <<n, 1>> \in Sent'
    BY <2>5, <2>6, SMT DEF Sent, Piece, Text
  <2>8. Arrive(n, 1) /\ typed' # << >>
    BY <1>2, <2>3, <2>6, EmptySeq, SMT
  <2> QED BY <1>2, <2>1, <2>3, <2>5, <2>6, <2>7, <2>8
<1> QED BY <1>1, <1>2 DEF _uart0_rx_isr

LEMMA IsrTyped ==
  ASSUME TypeInv, _uart0_rx_isr
  PROVE  TypeInv'
<1>1. PICK n, i \in Nat :
        /\ Arrive(n, i) /\ <<n, i>> \in Sent'
        /\ typed' # << >> /\ n = Len(typed') /\ n \in 1 .. Len(typed') /\ n <= MaxLine
        /\ i \in 1 .. Len(LineText(typed'[n]))
        /\ UNCHANGED typed \/ (\E l \in Line : typed' = Append(typed, l))
  BY IsrFacts
<1>2. typed \in Seq(Line)
  BY DEF TypeInv, HostOK
<1>3. /\ typed' \in Seq(Line) /\ Len(typed') \in Nat /\ Len(typed) \in Nat
      /\ Len(typed) <= Len(typed')
      /\ \A m \in 1 .. Len(typed) : typed'[m] = typed[m]
      /\ Sent \subseteq Sent'
  BY <1>1, <1>2, TypedKept
<1>4. position' = i /\ UNCHANGED <<parser, executed>>
  BY <1>1 DEF Arrive
<1>5. HostOK'
  BY <1>1, <1>3, <1>4 DEF HostOK, Text
<1>6. LineOK'
  BY <1>1, <1>3, ArriveLine
<1>7. ParserOK'
  BY <1>3, <1>4, ParserKept
<1> QED BY <1>5, <1>6, <1>7 DEF TypeInv

(* A receive takes the first token of the queue.                           *)
LEMMA Received ==
  ASSUME TypeInv, NEW token, Receive(token)
  PROVE  /\ xQueueUART # << >> /\ Len(xQueueUART) \in Nat /\ Len(xQueueUART) >= 1
         /\ token = xQueueUART[1] /\ token \in Sent /\ token \in Piece /\ last' = token
         /\ xQueueUART' \in Seq(Piece) /\ Len(xQueueUART') = Len(xQueueUART) - 1
         /\ \A k \in 1 .. Len(xQueueUART') : xQueueUART'[k] = xQueueUART[k + 1]
         /\ UNCHANGED <<typed, position, dropped>> /\ Sent' = Sent
<1>1. xQueueUART \in Seq(Piece) /\ \A k \in 1 .. Len(xQueueUART) : xQueueUART[k] \in Sent
  BY DEF TypeInv, LineOK
<1>2. xQueueUART # << >> /\ token = Head(xQueueUART) /\ xQueueUART' = Tail(xQueueUART)
      /\ last' = token /\ UNCHANGED <<typed, position, dropped>>
  BY DEF Receive, Note, host
<1>3. Len(xQueueUART) \in Nat /\ Len(xQueueUART) >= 1
  BY <1>1, <1>2, EmptySeq, LenProperties, SMT
<1>4. /\ xQueueUART' \in Seq(Piece) /\ Len(xQueueUART') = Len(xQueueUART) - 1
      /\ \A k \in 1 .. Len(xQueueUART') : xQueueUART'[k] = xQueueUART[k + 1]
      /\ token = xQueueUART[1]
  BY <1>1, <1>2, HeadTailProperties
<1>5. token \in Sent /\ token \in Piece
  BY <1>1, <1>3, <1>4, SMT DEF Sent
<1>6. Sent' = Sent
  BY <1>2 DEF Sent, Text
<1> QED BY <1>2, <1>3, <1>4, <1>5, <1>6

LEMMA ReceivedTyped ==
  ASSUME TypeInv, NEW token, Receive(token)
  PROVE  HostOK' /\ LineOK'
<1>1. /\ Len(xQueueUART) \in Nat /\ Len(xQueueUART) >= 1
      /\ token \in Sent /\ last' = token
      /\ xQueueUART' \in Seq(Piece) /\ Len(xQueueUART') = Len(xQueueUART) - 1
      /\ \A k \in 1 .. Len(xQueueUART') : xQueueUART'[k] = xQueueUART[k + 1]
      /\ UNCHANGED <<typed, position, dropped>> /\ Sent' = Sent
  BY Received
<1>2. HostOK'
  BY <1>1 DEF TypeInv, HostOK, Text
<1>3. clean' \subseteq 1 .. Len(typed')
  <2>1. token[1] \in 1 .. Len(typed)
    BY <1>1 DEF Sent
  <2>2. clean' = clean \/ clean' = clean \cup {token[1]}
    BY DEF Receive, Note
  <2> QED BY <1>1, <2>1, <2>2 DEF TypeInv, LineOK
<1>4. Len(xQueueUART') <= QueueSize
  BY <1>1, BoundAssumption, SMT DEF TypeInv, LineOK
<1>5. \A k \in 1 .. Len(xQueueUART') : xQueueUART'[k] \in Sent'
  <2>1. \A k \in 1 .. Len(xQueueUART') : k + 1 \in 1 .. Len(xQueueUART)
    BY <1>1, SMT
  <2> QED BY <1>1, <2>1 DEF TypeInv, LineOK
<1>6. dropped' \subseteq Sent'
  BY <1>1 DEF TypeInv, LineOK
<1> QED BY <1>1, <1>2, <1>3, <1>4, <1>5, <1>6 DEF LineOK

LEMMA NothingReceived ==
  ASSUME TypeInv, ReceiveNothing
  PROVE  /\ HostOK' /\ LineOK' /\ Sent' = Sent
         /\ UNCHANGED <<typed, position, xQueueUART, dropped, last>>
<1>1. UNCHANGED <<typed, position, xQueueUART, dropped, last>>
  BY DEF ReceiveNothing, NoteEmpty, host
<1>2. clean' \subseteq clean
  BY DEF ReceiveNothing, NoteEmpty
<1>3. HostOK' /\ Sent' = Sent
  BY <1>1 DEF TypeInv, HostOK, Sent, Text
<1> QED BY <1>1, <1>2, <1>3 DEF TypeInv, LineOK

(* The loop of a command has begun with a word that was typed.             *)
LEMMA InLoop ==
  ASSUME TypeInv, handler # None
  PROVE  /\ Handling /\ handler \in Piece /\ handler[1] \in 1 .. Len(typed) /\ handler[1] \in Nat
         /\ handler[2] = 1 /\ typed[handler[1]] \in Line /\ Word(handler) \in KnownWord
         /\ Fine(Format) /\ DOMAIN args = DOMAIN Format.copy
<1>1. Handling /\ typed \in Seq(Line)
  BY DEF TypeInv, ParserOK, HostOK
<1>2. handler \in Sent /\ handler \in Piece /\ handler[1] \in 1 .. Len(typed) /\ handler[1] \in Nat
  BY <1>1 DEF Handling, Sent, Piece
<1>3. typed[handler[1]] \in Line
  BY <1>1, <1>2, ElementOfSeq
<1>4. Fine(Format)
  BY <1>1, FormatFacts DEF Handling, Format
<1> QED BY <1>1, <1>2, <1>3, <1>4 DEF Handling

LEMMA HandlerKept ==
  ASSUME TypeInv, UNCHANGED <<typed, handler>>, Sent' = Sent, DOMAIN args' = DOMAIN args
  PROVE  handler' = None \/ Handling'
<1>1. CASE handler = None
  BY <1>1
<1>2. CASE handler # None
  <2>1. Handling
    BY <1>2, InLoop
  <2>2. Word(handler)' = Word(handler)
    BY DEF Word
  <2> QED BY <2>1, <2>2 DEF Handling, Format
<1> QED BY <1>1, <1>2

(* A character is stored behind the text collected so far.                 *)
LEMMA Stored ==
  ASSUME TypeInv, NEW token \in Piece
  PROVE  LET s == Append(Content, token) IN
         /\ s \in Seq(Piece) /\ Len(s) = message_index + 1 /\ message_index + 1 \in 0 .. Len(s)
         /\ Content \in Seq(Piece) /\ Len(Content) = message_index
         /\ \A k \in 1 .. message_index : s[k] = message_sr[k] /\ Content[k] = message_sr[k]
         /\ s[message_index + 1] = token
<1>1. message_sr \in Seq(Piece) /\ message_index \in 0 .. Len(message_sr)
      /\ Len(message_sr) \in Nat
  BY LenProperties DEF TypeInv, ParserOK
<1>2. Content \in Seq(Piece) /\ Len(Content) = message_index
      /\ \A k \in 1 .. message_index : Content[k] = message_sr[k]
  BY <1>1, SMT DEF Content
<1>3. /\ Append(Content, token) \in Seq(Piece) /\ Len(Append(Content, token)) = Len(Content) + 1
      /\ \A k \in 1 .. Len(Content) : Append(Content, token)[k] = Content[k]
      /\ Append(Content, token)[Len(Content) + 1] = token
  BY <1>2, AppendProperties
<1> QED BY <1>1, <1>2, <1>3, SMT

(* A command that runs is written down with its line.                      *)
LEMMA Recorded ==
  ASSUME TypeInv, NEW word \in Piece, NEW arguments \in Seq(Seq(Piece)), Run(word, arguments)
  PROVE  /\ executed' \in Seq([line : Nat, args : Seq(Seq(Piece))])
         /\ Len(executed) \in Nat /\ Len(executed') = Len(executed) + 1
         /\ \A k \in 1 .. Len(executed) : executed'[k] = executed[k]
         /\ executed'[Len(executed) + 1] = [line |-> word[1], args |-> arguments]
<1>1. executed \in Seq([line : Nat, args : Seq(Seq(Piece))])
  BY DEF TypeInv, ParserOK
<1>2. [line |-> word[1], args |-> arguments] \in [line : Nat, args : Seq(Seq(Piece))]
  BY DEF Piece
<1> QED BY <1>1, <1>2, AppendProperties, LenProperties DEF Run

(* A separator ends some of the arguments with the text collected so far.  *)
LEMMA CopiedArguments ==
  ASSUME TypeInv, handler # None, NEW n
  PROVE  /\ Copied(n) \in Seq(Seq(Piece)) /\ DOMAIN Copied(n) = DOMAIN args
         /\ Len(Copied(n)) = Len(args) /\ DOMAIN args = 1 .. Len(args)
         /\ \A j \in DOMAIN args :
              \/ Copied(n)[j] = args[j]
              \/ /\ Copied(n)[j] \in {Content, message_sr}
                 /\ Format.copy[j] = n \/ Word(handler) \in Mode
                 /\ Word(handler) = "AT+MGWF " /\ j = 4 => Kind(args[1][1]) = "One"
<1>1. args \in Seq(Seq(Piece)) /\ message_sr \in Seq(Piece)
      /\ DOMAIN args = 1 .. Len(args) /\ Len(args) \in Nat
  BY LenProperties DEF TypeInv, ParserOK
<1>2. Content \in Seq(Piece)
  BY NoneNotSent, Stored
<1>3. ASSUME NEW j \in DOMAIN args
      PROVE  /\ Copied(n)[j] \in Seq(Piece)
             /\ \/ Copied(n)[j] = args[j]
                \/ /\ Copied(n)[j] \in {Content, message_sr}
                   /\ Format.copy[j] = n \/ Word(handler) \in Mode
                   /\ Word(handler) = "AT+MGWF " /\ j = 4 => Kind(args[1][1]) = "One"
  <2>1. args[j] \in Seq(Piece)
    BY <1>1, <1>3
  <2>2. \/ Copied(n)[j] = args[j]
        \/ /\ Copied(n)[j] \in {Content, message_sr}
           /\ Format.copy[j] = n \/ Word(handler) \in Mode
           /\ Word(handler) = "AT+MGWF " /\ j = 4 => Kind(args[1][1]) = "One"
    BY <1>3, Zenon DEF Copied
  <2> QED BY <1>1, <1>2, <2>1, <2>2
<1>4. Copied(n) = [j \in 1 .. Len(args) |-> Copied(n)[j]]
  BY <1>1, Zenon DEF Copied
<1>5. DOMAIN Copied(n) = DOMAIN args
  BY <1>1, <1>4
<1> DEFINE c == Copied(n)
<1>6. c \in Seq(Seq(Piece)) /\ Len(c) = Len(args)
  <2>1. \A j \in 1 .. Len(args) : c[j] \in Seq(Piece)
    BY <1>1, <1>3
  <2> HIDE DEF c
  <2>2. c = [j \in 1 .. Len(args) |-> c[j]]
    BY <1>4 DEF c
  <2> QED BY <1>1, <2>1, <2>2, IsASeq, LenProperties
<1> QED BY <1>1, <1>3, <1>5, <1>6

LEMMA BetweenTyped ==
  ASSUME TypeInv, NEW token,
         IgnoreLineEnd(token) \/ Accumulate(token) \/ RunAtOnce(token)
  PROVE  ParserOK'
<1>0. Receive(token) /\ handler = None /\ UNCHANGED <<handler, args, param, break_loop>>
  BY DEF IgnoreLineEnd, Accumulate, RunAtOnce, parser
<1>1. token \in Piece /\ token \in Sent
  BY <1>0, Received
<1>2. handler' = None /\ param' \in Nat /\ break_loop' \in BOOLEAN /\ args' \in Seq(Seq(Piece))
  BY <1>0 DEF TypeInv, ParserOK
<1>3. CASE IgnoreLineEnd(token)
  BY <1>2, <1>3 DEF IgnoreLineEnd, TypeInv, ParserOK, parser
<1>4. CASE Accumulate(token)
  <2>1. message_sr' \in Seq(Piece) /\ message_index' \in 0 .. Len(message_sr')
    BY <1>1, <1>4, Stored DEF Accumulate
  <2> QED BY <1>2, <1>4, <2>1 DEF Accumulate, TypeInv, ParserOK
<1>5. CASE RunAtOnce(token)
  <2>1. message_sr' = <<token>> /\ message_index' = 0 /\ Run(token, << >>)
    BY <1>5 DEF RunAtOnce, Found
  <2>2. message_sr' \in Seq(Piece) /\ message_index' \in 0 .. Len(message_sr')
    <3>1. message_sr' \in Seq(Piece)
      BY <1>1, <2>1, ShortSeq
    <3> QED BY <2>1, <3>1, LenProperties, SMT
  <2>3. executed' \in Seq([line : Nat, args : Seq(Seq(Piece))])
    <3>1. << >> \in Seq(Seq(Piece))
      OBVIOUS
    <3> QED BY <1>1, <2>1, <3>1, Recorded
  <2> QED BY <1>2, <2>2, <2>3 DEF ParserOK
<1> QED BY <1>3, <1>4, <1>5

LEMMA BeginTyped ==
  ASSUME TypeInv, NEW token, BeginArguments(token)
  PROVE  ParserOK'
<1>0. Receive(token) /\ Found(token) /\ message_index' = message_index /\ message_index = 0
  BY DEF BeginArguments, Found
<1>1. token \in Piece /\ token \in Sent /\ UNCHANGED typed /\ Sent' = Sent
  BY <1>0, Received
<1>2. Word(token) \in KnownWord /\ token[2] = 1 /\ handler' = token
  BY <1>0 DEF Found, BeginArguments
<1>3. PICK n \in Nat : DOMAIN Command[Word(token)].copy = 1 .. n
  BY <1>2, FormatFacts DEF Fine
<1>4. args' = [j \in 1 .. n |-> << >>]
  BY <1>3 DEF BeginArguments
<1>5. args' \in Seq(Seq(Piece)) /\ DOMAIN args' = 1 .. n
  <2>1. << >> \in Seq(Piece)
    OBVIOUS
  <2> QED BY <1>4, <2>1, IsASeq
<1>6. Word(handler)' = Word(token)
  BY <1>1, <1>2 DEF Word
<1>7. Handling'
  BY <1>1, <1>2, <1>3, <1>5, <1>6 DEF Handling, Format
<1>8. message_sr' \in Seq(Piece) /\ message_index' \in 0 .. Len(message_sr')
  <2>1. message_sr' = << >> \/ message_sr' = <<token>>
    BY DEF BeginArguments
  <2>2. << >> \in Seq(Piece) /\ <<token>> \in Seq(Piece)
    BY <1>1, ShortSeq
  <2>3. message_sr' \in Seq(Piece)
    BY <2>1, <2>2
  <2> QED BY <1>0, <2>3, LenProperties, SMT
<1>9. param' = 0 /\ break_loop' \in BOOLEAN
      /\ executed' \in Seq([line : Nat, args : Seq(Seq(Piece))])
  BY DEF BeginArguments, TypeInv, ParserOK
<1> QED BY <1>5, <1>7, <1>8, <1>9 DEF ParserOK

LEMMA CollectTyped ==
  ASSUME TypeInv, NEW token, CollectText(token)
  PROVE  ParserOK'
<1>0. Receive(token)
  BY DEF CollectText
<1>1. token \in Piece /\ UNCHANGED typed /\ Sent' = Sent
  BY <1>0, Received
<1>2. message_sr' \in Seq(Piece) /\ message_index' \in 0 .. Len(message_sr')
  BY <1>1, Stored DEF CollectText
<1>3. handler' = None \/ Handling'
  BY <1>1, HandlerKept DEF CollectText
<1> QED BY <1>2, <1>3 DEF CollectText, TypeInv, ParserOK

LEMMA SeparatorTyped ==
  ASSUME TypeInv, NEW token, Separator(token)
  PROVE  ParserOK'
<1>0. Receive(token) /\ handler # None /\ args' = Copied(param + 1)
      /\ UNCHANGED <<message_sr, handler>>
  BY DEF Separator
<1>1. token \in Piece /\ UNCHANGED typed /\ Sent' = Sent
  BY <1>0, Received
<1>2. args' \in Seq(Seq(Piece)) /\ DOMAIN args' = DOMAIN args
  BY <1>0, CopiedArguments
<1>3. handler' = None \/ Handling'
  BY <1>0, <1>1, <1>2, HandlerKept
<1>4. message_sr' \in Seq(Piece) /\ message_index' \in 0 .. Len(message_sr')
  <2>1. message_index' \in {message_index, 0} /\ message_sr \in Seq(Piece)
        /\ message_index \in 0 .. Len(message_sr)
    BY DEF Separator, TypeInv, ParserOK
  <2> QED BY <1>0, <2>1, LenProperties, SMT
<1>5. param' \in Nat
  BY DEF Separator, TypeInv, ParserOK
<1>6. break_loop' \in BOOLEAN
  <2>1. Ends(param + 1) \subseteq BOOLEAN
    BY Zenon DEF Ends
  <2> QED BY <2>1 DEF Separator
<1>7. executed' \in Seq([line : Nat, args : Seq(Seq(Piece))])
  <2>1. UNCHANGED executed \/ Run(handler, args')
    BY DEF Separator
  <2>2. CASE Run(handler, args')
    <3>1. PICK a \in Seq(Seq(Piece)) : a = args'
      BY <1>2
    <3>2. handler \in Piece
      BY <1>0, InLoop
    <3>3. Run(handler, a)
      BY <2>2, <3>1 DEF Run
    <3> QED BY <3>2, <3>3, Recorded
  <2> QED BY <2>1, <2>2 DEF TypeInv, ParserOK
<1> QED BY <1>2, <1>3, <1>4, <1>5, <1>6, <1>7 DEF ParserOK

LEMMA LeaveTyped ==
  ASSUME TypeInv, handler # None, Leave
  PROVE  ParserOK'
<1>1. handler' = None /\ param' = 0 /\ args' = << >> /\ break_loop' = FALSE
      /\ message_index' = 0 /\ UNCHANGED message_sr
  BY DEF Leave
<1>2. message_sr' \in Seq(Piece) /\ message_index' \in 0 .. Len(message_sr')
  BY <1>1, LenProperties, SMT DEF TypeInv, ParserOK
<1>3. executed' \in Seq([line : Nat, args : Seq(Seq(Piece))])
  <2>1. UNCHANGED executed \/ Run(handler, args)
    BY DEF Leave
  <2>2. handler \in Piece /\ args \in Seq(Seq(Piece))
    BY InLoop DEF TypeInv, ParserOK
  <2>3. CASE Run(handler, args)
    BY <2>2, <2>3, Recorded
  <2> QED BY <2>1, <2>3 DEF TypeInv, ParserOK
<1>4. args' \in Seq(Seq(Piece))
  BY <1>1
<1> QED BY <1>1, <1>2, <1>3, <1>4 DEF ParserOK

LEMMA ReadTyped ==
  ASSUME TypeInv, read_sr
  PROVE  TypeInv'
<1>1. ASSUME NEW token,
             \/ IgnoreLineEnd(token) \/ Accumulate(token)
             \/ RunAtOnce(token) \/ BeginArguments(token)
             \/ CollectText(token) \/ Separator(token) \/ LeaveAfter(token)
      PROVE  TypeInv'
  <2>1. Receive(token)
    BY <1>1 DEF IgnoreLineEnd, Accumulate, RunAtOnce, BeginArguments, CollectText,
                Separator, LeaveAfter
  <2>2. ParserOK'
    BY <1>1, BetweenTyped, BeginTyped, CollectTyped, SeparatorTyped, LeaveTyped, Zenon DEF LeaveAfter
  <2> QED BY <2>1, <2>2, ReceivedTyped DEF TypeInv
<1>2. CASE Pause
  <2>1. message_sr \in Seq(Piece) /\ message_index' = 0 /\ message_sr' = message_sr
        /\ handler' = None /\ UNCHANGED <<param, args, break_loop, executed>>
    BY <1>2 DEF Pause, TypeInv, ParserOK
  <2>2. message_index' \in 0 .. Len(message_sr')
    BY <2>1, LenProperties, SMT
  <2>3. ParserOK'
    BY <2>1, <2>2 DEF TypeInv, ParserOK
  <2> QED BY <1>2, <2>3, NothingReceived DEF Pause, TypeInv
<1>3. CASE LeaveEmpty
  BY <1>3, LeaveTyped, NothingReceived DEF LeaveEmpty, TypeInv
<1> QED BY <1>1, <1>2, <1>3 DEF read_sr

LEMMA InitTyped == Init => TypeInv
<1> SUFFICES ASSUME Init PROVE TypeInv
  OBVIOUS
<1>1. << >> \in Seq(Line) /\ << >> \in Seq(Piece) /\ << >> \in Seq(Seq(Piece))
      /\ << >> \in Seq([line : Nat, args : Seq(Seq(Piece))]) /\ Len(<< >>) = 0
  OBVIOUS
<1>2. HostOK
  BY <1>1, BoundAssumption, SMT DEF Init, HostOK
<1>3. LineOK
  BY <1>1, BoundAssumption, SMT DEF Init, LineOK
<1>4. ParserOK
  <2>1. /\ message_sr = << >> /\ message_index = 0 /\ handler = None /\ param = 0
        /\ args = << >> /\ break_loop = FALSE /\ executed = << >>
    BY DEF Init
  <2>2. message_index \in 0 .. Len(message_sr)
    BY <1>1, <2>1, SMT
  <2> QED BY <1>1, <2>1, <2>2, Zenon DEF ParserOK
<1> QED BY <1>2, <1>3, <1>4 DEF TypeInv

LEMMA StutterTyped ==
  ASSUME TypeInv, UNCHANGED vars
  PROVE  TypeInv'
<1>1. UNCHANGED <<typed, position, xQueueUART, message_sr, message_index, handler, param,
                  args, break_loop, executed, last, dropped, clean>>
  BY DEF vars, host, parser
<1>2. Sent' = Sent
  BY <1>1 DEF Sent, Text
<1>3. HostOK' /\ LineOK'
  BY <1>1, <1>2 DEF TypeInv, HostOK, LineOK, Text
<1>4. ParserOK'
  <2>1. handler' = None \/ Handling'
    BY <1>1, <1>2, HandlerKept
  <2> QED BY <1>1, <2>1 DEF TypeInv, ParserOK
<1> QED BY <1>3, <1>4 DEF TypeInv

LEMMA StepTyped == TypeInv /\ [Next]_vars => TypeInv'
BY IsrTyped, ReadTyped, StutterTyped DEF Next

LEMMA SentTokens == Sent \cup {None} \subseteq Token
<1> SUFFICES ASSUME NEW t \in Sent PROVE t \in Token
  BY DEF Token
<1>1. t[1] \in 1 .. Len(typed) /\ t[2] \in 1 .. Len(Text(t[1])) /\ t = <<t[1], t[2]>>
  BY DEF Sent, Piece
<1> QED BY <1>1 DEF Token

LEMMA Types == TypeInv => TypeOK
<1> SUFFICES ASSUME TypeInv PROVE TypeOK
  OBVIOUS
<1>1. /\ typed \in Seq(Line) /\ position \in Nat /\ Len(xQueueUART) <= QueueSize
      /\ message_index \in 0 .. Len(message_sr) /\ param \in Nat /\ break_loop \in BOOLEAN
  BY DEF TypeInv, HostOK, LineOK, ParserOK
<1>2. handler \in Sent \cup {None} /\ dropped \subseteq Sent
  BY DEF TypeInv, LineOK, ParserOK, Handling
<1>3. clean \in SUBSET (1 .. MaxLine)
  <2>1. /\ clean \subseteq 1 .. Len(typed) /\ Len(typed) <= MaxLine
        /\ Len(typed) \in Nat /\ MaxLine \in Nat
    BY BoundAssumption, LenProperties DEF TypeInv, HostOK, LineOK
  <2>2. 1 .. Len(typed) \subseteq 1 .. MaxLine
    BY <2>1, SMT
  <2> QED BY <2>1, <2>2
<1>4. handler \in Token /\ dropped \subseteq Token
  BY <1>2, SentTokens
<1> QED BY <1>1, <1>3, <1>4 DEF TypeOK

(* The types of the serial line (user_main.c:178-187): message_index never *)
(* passes the text in message_sr, the queue is never longer than it was    *)
(* created, and read_sr is in the loop of a command that was typed.        *)
THEOREM TypeCorrect == Spec => []TypeOK
<1>1. Spec => []TypeInv
  BY InitTyped, StepTyped, PTL DEF Spec
<1> QED BY <1>1, Types, PTL

-----------------------------------------------------------------------------
(* The queue holds what follows the token received last, and a line that   *)
(* lost no token follows without a gap up to what left the host.           *)
Waiting(k) == IF k = 0 THEN last ELSE xQueueUART[k]

Succeeds(a, b) ==
  a # None /\ Whole(a[1]) /\ a[2] < Len(Text(a[1])) => b = <<a[1], a[2] + 1>>

Latest(a) ==
  a # None /\ Whole(a[1]) =>
    IF a[1] = Len(typed) THEN a[2] = position ELSE a[2] = Len(Text(a[1]))

Unbroken ==
  /\ \A k \in 0 .. Len(xQueueUART) - 1 : Succeeds(Waiting(k), Waiting(k + 1))
  /\ Latest(Waiting(Len(xQueueUART)))

LEMMA WaitingSent ==
  ASSUME TypeInv, NEW k \in 0 .. Len(xQueueUART)
  PROVE  Waiting(k) \in Sent \cup {None}
<1>1. Len(xQueueUART) \in Nat
  BY LenProperties DEF TypeInv, LineOK
<1>2. k = 0 \/ k \in 1 .. Len(xQueueUART)
  BY <1>1, SMT
<1> QED BY <1>2 DEF TypeInv, LineOK, Waiting

LEMMA SentText ==
  ASSUME TypeInv, NEW t \in Sent
  PROVE  /\ t # None /\ t[1] \in Nat /\ t[2] \in Nat /\ t[1] \in 1 .. Len(typed)
         /\ t[2] \in 1 .. Len(Text(t[1])) /\ Len(Text(t[1])) \in Nat
         /\ t = <<t[1], t[2]>> /\ typed # << >> /\ typed[t[1]] \in Line
<1>1. t \in Piece /\ t[1] \in 1 .. Len(typed) /\ t[2] \in 1 .. Len(Text(t[1]))
  BY DEF Sent
<1>2. typed \in Seq(Line)
  BY DEF TypeInv, HostOK
<1>3. typed # << >>
  BY <1>1, <1>2, EmptySeq, SMT
<1>4. typed[t[1]] \in Line /\ Len(Text(t[1])) \in Nat
  BY <1>1, <1>2, TextAt
<1> QED BY <1>1, <1>3, <1>4, NoneNotSent, SMT DEF Piece

(* The interrupt: what was latest is followed by the token that arrives,   *)
(* or belongs to a line that lost it.                                      *)
LEMMA ArriveUnbroken ==
  ASSUME TypeInv, Unbroken, _uart0_rx_isr
  PROVE  Unbroken'
<1>1. PICK n, i \in Nat :
        /\ Arrive(n, i) /\ <<n, i>> \in Sent'
        /\ typed' # << >> /\ n = Len(typed') /\ n \in 1 .. Len(typed')
        /\ i \in 1 .. Len(LineText(typed'[n]))
        /\ \/ UNCHANGED typed /\ i = position + 1 /\ n = Len(typed)
           \/ /\ \E l \in Line : typed' = Append(typed, l)
              /\ Complete /\ i = 1 /\ n = Len(typed) + 1
  BY IsrFacts
<1>2. /\ typed' \in Seq(Line) /\ Len(typed') \in Nat /\ Len(typed) \in Nat
      /\ Len(typed) <= Len(typed') /\ Sent \subseteq Sent'
      /\ \A m \in 1 .. Len(typed) : Text(m)' = Text(m)
  BY <1>1, TypedKept DEF TypeInv, HostOK
<1>3. position' = i /\ last' = last
      /\ \/ xQueueUART' = Append(xQueueUART, <<n, i>>) /\ dropped' = dropped
         \/ xQueueUART' = xQueueUART /\ dropped' = dropped \cup {<<n, i>>}
  BY <1>1 DEF Arrive
<1>4. ASSUME NEW a \in Sent, Whole(a[1])'
      PROVE  /\ Whole(a[1]) /\ Text(a[1])' = Text(a[1])
             /\ xQueueUART' = xQueueUART => a[1] # n
  <2>1. dropped \subseteq dropped' /\ (xQueueUART' = xQueueUART => <<n, i>> \in dropped')
    <3>1. CASE xQueueUART' = Append(xQueueUART, <<n, i>>) /\ dropped' = dropped
      <4>1. xQueueUART' # xQueueUART
        BY <1>1, <3>1, AppendProperties, LenProperties, SMT DEF TypeInv, LineOK, Piece
      <4> QED BY <3>1, <4>1
    <3>2. CASE xQueueUART' = xQueueUART /\ dropped' = dropped \cup {<<n, i>>}
      BY <3>2
    <3> QED BY <1>3, <3>1, <3>2
  <2>2. a[1] \in 1 .. Len(typed)
    BY SentText
  <2> QED BY <1>2, <1>4, <2>1, <2>2 DEF Whole
<1>5. PICK m \in Nat : m = Len(xQueueUART)
  BY LenProperties DEF TypeInv, LineOK
<1>6. \A k \in 0 .. m : Waiting(k)' = Waiting(k) /\ Waiting(k) \in Sent \cup {None}
  <2>1. \A k \in 1 .. m : xQueueUART'[k] = xQueueUART[k]
    <3>1. <<n, i>> \in Piece /\ xQueueUART \in Seq(Piece)
      BY DEF TypeInv, LineOK, Piece
    <3>2. \A k \in 1 .. m : Append(xQueueUART, <<n, i>>)[k] = xQueueUART[k]
      BY <1>5, <3>1, AppendProperties
    <3> QED BY <1>3, <3>2
  <2>2. \A k \in 0 .. m : k = 0 \/ k \in 1 .. m
    BY SMT
  <2>3. \A k \in 0 .. m : Waiting(k) \in Sent \cup {None}
    BY <1>5, WaitingSent
  <2> QED BY <1>3, <2>1, <2>2, <2>3 DEF Waiting
<1>7. ASSUME NEW k \in 0 .. m - 1 PROVE Succeeds(Waiting(k), Waiting(k + 1))'
  <2>1. PICK a \in Sent \cup {None} : a = Waiting(k) /\ a = Waiting(k)'
    <3>1. k \in 0 .. m
      BY SMT
    <3> QED BY <1>6, <3>1
  <2>2. PICK b : b = Waiting(k + 1) /\ b = Waiting(k + 1)'
    <3>1. k + 1 \in 0 .. m
      BY SMT
    <3> QED BY <1>6, <3>1
  <2>3. Succeeds(a, b)
    BY <1>5, <2>1, <2>2 DEF Unbroken
  <2>4. Succeeds(a, b)'
    BY <1>4, <2>1, <2>3 DEF Succeeds
  <2> QED BY <2>1, <2>2, <2>4 DEF Succeeds, Whole, Text
<1>8. PICK a \in Sent \cup {None} : a = Waiting(m) /\ a = Waiting(m)'
  <2>1. m \in 0 .. m
    BY SMT
  <2> QED BY <1>6, <2>1
<1>9. Latest(a)
  BY <1>5, <1>8 DEF Unbroken
<1>10. CASE xQueueUART' = Append(xQueueUART, <<n, i>>)
  <2>1. Len(xQueueUART') = m + 1 /\ Waiting(m + 1)' = <<n, i>>
    BY <1>1, <1>5, <1>10, AppendProperties, SMT DEF TypeInv, LineOK, Piece, Waiting
  <2>2. PICK b : b = <<n, i>>
    OBVIOUS
  <2>3. Latest(b)'
    BY <1>1, <1>3, <2>2 DEF Latest
  <2>4. Succeeds(a, b)'
    <3> SUFFICES ASSUME a # None, Whole(a[1])', a[2] < Len(Text(a[1])')
                 PROVE  b = <<a[1], a[2] + 1>>
      BY DEF Succeeds
    <3>1. a \in Sent
      OBVIOUS
    <3>2. Whole(a[1]) /\ Text(a[1])' = Text(a[1])
      BY <1>4, <3>1
    <3>3. Len(Text(a[1])) \in Nat /\ a[2] \in Nat
      BY <3>1, SentText
    <3>4. a[1] = Len(typed) /\ a[2] = position
      BY <1>9, <3>2, <3>3, SMT DEF Latest
    <3>5. ~Complete
      BY <3>1, <3>2, <3>3, <3>4, SentText, SMT DEF Complete
    <3> QED BY <1>1, <2>2, <3>4, <3>5
  <2>5. \A k \in 0 .. m : k \in 0 .. m - 1 \/ k = m
    BY SMT
  <2>6. Succeeds(Waiting(m), Waiting(m + 1))'
    BY <1>8, <2>1, <2>2, <2>4 DEF Succeeds, Whole, Text
  <2>7. \A k \in 0 .. m : Succeeds(Waiting(k), Waiting(k + 1))'
    BY <1>7, <2>5, <2>6
  <2>8. Len(xQueueUART') - 1 = m
    BY <2>1, SMT
  <2> QED BY <2>1, <2>2, <2>3, <2>7, <2>8 DEF Unbroken, Latest, Whole, Text
<1>11. CASE xQueueUART' = xQueueUART
  <2>1. Latest(a)'
    <3> SUFFICES ASSUME a # None, Whole(a[1])'
                 PROVE  a[1] # Len(typed') /\ a[2] = Len(Text(a[1])')
      BY DEF Latest
    <3>1. a \in Sent
      OBVIOUS
    <3>2. Whole(a[1]) /\ Text(a[1])' = Text(a[1]) /\ a[1] # n
      BY <1>4, <1>11, <3>1
    <3>3. a[2] = Len(Text(a[1]))
      BY <1>1, <1>9, <3>1, <3>2, SentText DEF Latest, Complete
    <3> QED BY <1>1, <3>2, <3>3
  <2>2. Len(xQueueUART') = m
    BY <1>5, <1>11
  <2> QED BY <1>7, <1>8, <2>1, <2>2 DEF Unbroken, Latest, Whole, Text
<1> QED BY <1>3, <1>10, <1>11

LEMMA ReceiveUnbroken ==
  ASSUME TypeInv, Unbroken, NEW token, Receive(token)
  PROVE  Unbroken' /\ Succeeds(last, token)
<1>1. /\ Len(xQueueUART) \in Nat /\ Len(xQueueUART) >= 1
      /\ token = xQueueUART[1] /\ last' = token
      /\ Len(xQueueUART') = Len(xQueueUART) - 1
      /\ \A k \in 1 .. Len(xQueueUART') : xQueueUART'[k] = xQueueUART[k + 1]
      /\ UNCHANGED <<typed, position, dropped>>
  BY Received
<1>2. PICK m \in Nat : m = Len(xQueueUART')
  BY <1>1, SMT
<1>3. Len(xQueueUART) = m + 1
  BY <1>1, <1>2, SMT
<1>4. \A k \in 0 .. m : Waiting(k)' = Waiting(k + 1)
  <2>1. \A k \in 0 .. m : k + 1 # 0 /\ (k = 0 \/ k \in 1 .. m)
    BY SMT
  <2> QED BY <1>1, <1>2, <2>1, SMT DEF Waiting
<1>5. ASSUME NEW k \in 0 .. m - 1 PROVE Succeeds(Waiting(k), Waiting(k + 1))'
  <2>1. k \in 0 .. m /\ k + 1 \in 0 .. m /\ k + 1 \in 0 .. Len(xQueueUART) - 1
    BY <1>3, SMT
  <2>2. Succeeds(Waiting(k + 1), Waiting(k + 1 + 1))
    BY <2>1 DEF Unbroken
  <2>3. Waiting(k)' = Waiting(k + 1) /\ Waiting(k + 1)' = Waiting(k + 1 + 1)
    BY <1>4, <2>1
  <2>4. PICK a, b : a = Waiting(k + 1) /\ b = Waiting(k + 1 + 1)
    OBVIOUS
  <2>5. Succeeds(a, b)'
    BY <1>1, <2>2, <2>4 DEF Succeeds, Whole, Text
  <2> QED BY <2>3, <2>4, <2>5 DEF Succeeds, Whole, Text
<1>6. Latest(Waiting(m))'
  <2>1. Waiting(m)' = Waiting(m + 1)
    BY <1>4, SMT
  <2>2. Latest(Waiting(m + 1))
    BY <1>3 DEF Unbroken
  <2> QED BY <1>1, <2>1, <2>2 DEF Latest, Whole, Text
<1>7. Succeeds(last, token)
  <2>1. 0 \in 0 .. Len(xQueueUART) - 1
    BY <1>1, SMT
  <2>2. Waiting(0) = last /\ Waiting(0 + 1) = token
    BY <1>1, SMT DEF Waiting
  <2> QED BY <2>1, <2>2 DEF Unbroken
<1> QED BY <1>2, <1>5, <1>6, <1>7 DEF Unbroken, Latest, Whole, Text

-----------------------------------------------------------------------------
(* In the loop of a command, as long as its line lost no token: read_sr is *)
(* in that line and has counted its separators, or it has gone beyond the  *)
(* last separator after which something is copied.  A mode ends its loop   *)
(* at the first one; the first argument of a feed is the token behind the  *)
(* word, or the word when nothing is behind it.                            *)
Own(s, n) == \A k \in 1 .. Len(s) : s[k][1] = n

InLine ==
  /\ last[1] = handler[1] /\ Own(message_sr, handler[1])
  /\ param = Cardinality(SeparatorsUpTo(typed[handler[1]], last[2]))

Beyond == param >= Needed(typed[handler[1]])

OwnArguments == \A j \in 1 .. Len(args) : Own(args[j], handler[1])

ModeEnds == Word(handler) \in Mode /\ param >= 1 => break_loop

FeedMode ==
  Word(handler) = "AT+MGWF " =>
    /\ param = 0 =>
         /\ message_sr # << >>
         /\ message_index = 0 => message_sr = <<handler>> /\ last = handler
         /\ message_index # 0 => message_sr[1] = <<handler[1], 2>>
    /\ param >= 1 => args[1] # << >> /\ args[1][1] \in {handler, <<handler[1], 2>>}

Tracked ==
  handler # None /\ Whole(handler[1]) =>
    OwnArguments /\ (InLine \/ Beyond) /\ ModeEnds /\ FeedMode

Unmixed ==
  \A k \in 1 .. Len(executed) : Whole(executed[k].line) =>
    \A j \in 1 .. Len(executed[k].args) : Own(executed[k].args[j], executed[k].line)

ParserInv == TypeInv /\ Unbroken /\ Tracked /\ Unmixed

(* The separators of a line, one more at each of them.                     *)
LEMMA NoneCounted ==
  ASSUME NEW l
  PROVE  Cardinality(SeparatorsUpTo(l, 1)) = 0
<1>1. SeparatorsUpTo(l, 1) = {}
  BY SMT DEF SeparatorsUpTo
<1> QED BY <1>1, FS_EmptySet

LEMMA Counted ==
  ASSUME NEW l, NEW i \in Nat, i >= 1
  PROVE  /\ Cardinality(SeparatorsUpTo(l, i)) \in Nat
         /\ Cardinality(SeparatorsUpTo(l, i + 1)) =
              IF LineText(l)[i + 1] \in Command[l.word].separators
              THEN Cardinality(SeparatorsUpTo(l, i)) + 1
              ELSE Cardinality(SeparatorsUpTo(l, i))
<1> DEFINE S == SeparatorsUpTo(l, i)
           isSeparator == LineText(l)[i + 1] \in Command[l.word].separators
<1>1. IsFiniteSet(S) /\ Cardinality(S) \in Nat
  <2>1. IsFiniteSet(2 .. i)
    BY FS_Interval
  <2>2. S \in SUBSET (2 .. i)
    BY DEF SeparatorsUpTo
  <2>3. IsFiniteSet(S)
    BY <2>1, <2>2, FS_Subset
  <2> QED BY <2>3, FS_CardinalityType
<1>2. \A k : k \in 2 .. i + 1 <=> k \in 2 .. i \/ k = i + 1
  BY SMT
<1>3. i + 1 \notin S
  BY SMT DEF SeparatorsUpTo
<1>4. CASE isSeparator
  <2>1. SeparatorsUpTo(l, i + 1) = S \cup {i + 1}
    BY <1>2, <1>4 DEF SeparatorsUpTo
  <2> QED BY <1>1, <1>3, <1>4, <2>1, FS_AddElement
<1>5. CASE ~isSeparator
  <2>1. SeparatorsUpTo(l, i + 1) = S
    BY <1>2, <1>5 DEF SeparatorsUpTo
  <2> QED BY <1>1, <1>5, <2>1
<1> QED BY <1>4, <1>5

LEMMA NeededFacts ==
  ASSUME NEW l \in Line, l.word \in KnownWord
  PROVE  /\ Needed(l) \in Nat /\ Command[l.word].end \in Nat
         /\ l.word \in Mode => Needed(l) = 1
         /\ l.word = "AT+MGWF " =>
              IF LineText(l)[2] = "One" THEN Needed(l) = 9 ELSE Needed(l) = 6
         /\ l.word # "AT+MGWF " => Needed(l) = Command[l.word].end
<1>1. /\ Command[l.word].end \in Nat
      /\ l.word \in Mode => Command[l.word].end = 1
      /\ l.word = "AT+MGWF " => Command[l.word].end = 9
  BY FormatFacts DEF Fine
<1>2. "AT+MGWF " \notin Mode
  BY DEF Mode
<1>3. /\ Needed(l) \in {6, Command[l.word].end}
      /\ l.word = "AT+MGWF " =>
           IF LineText(l)[2] = "One" THEN Needed(l) = Command[l.word].end ELSE Needed(l) = 6
      /\ l.word # "AT+MGWF " => Needed(l) = Command[l.word].end
  BY Zenon DEF Needed
<1>4. l.word \in Mode => Needed(l) = 1
  BY <1>1, <1>2, <1>3, Zenon
<1>5. Needed(l) \in Nat
  <2>1. 6 \in Nat
    BY SMT
  <2> QED BY <1>1, <1>3, <2>1, Zenon
<1> QED BY <1>1, <1>3, <1>4, <1>5, Zenon

(* What is received in the loop of a command continues its line, until the *)
(* line has ended, and then it had all the separators.                     *)
LEMMA Continues ==
  ASSUME ParserInv, handler # None, Whole(handler[1]), NEW token, Receive(token)
  PROVE  \/ /\ InLine /\ last[2] \in Nat /\ last[2] >= 1
            /\ token = <<handler[1], last[2] + 1>>
            /\ Kind(token) = LineText(typed[handler[1]])[last[2] + 1]
         \/ Beyond
<1>0. TypeInv /\ Unbroken /\ Tracked
  BY DEF ParserInv
<1>1. CASE Beyond
  BY <1>1
<1>2. CASE InLine
  <2>0. handler[1] # 0 /\ typed[handler[1]] \in Line /\ typed[handler[1]].word \in KnownWord
    BY <1>0, InLoop, SMT DEF Word
  <2>1. last \in Sent
    <3>1. last \in Sent \cup {None}
      BY <1>0 DEF TypeInv, LineOK
    <3>2. last # None
      BY <1>2, <2>0 DEF InLine, None
    <3> QED BY <3>1, <3>2
  <2>2. /\ last[2] \in Nat /\ last[2] \in 1 .. Len(Text(handler[1])) /\ last # None
        /\ Len(Text(handler[1])) \in Nat
    BY <1>0, <1>2, <2>1, SentText DEF InLine
  <2>3. Succeeds(last, token)
    BY <1>0, ReceiveUnbroken
  <2>4. CASE last[2] < Len(Text(handler[1]))
    <3>1. token = <<handler[1], last[2] + 1>>
      BY <1>2, <2>2, <2>3, <2>4 DEF Succeeds, InLine
    <3> QED BY <1>2, <2>2, <3>1, SMT DEF Kind, Text
  <2>5. CASE last[2] = Len(Text(handler[1]))
    <3>1. Formatted(typed[handler[1]])
      BY <2>0, FormatAssumption
    <3> QED BY <1>2, <2>0, <2>5, <3>1, Zenon DEF Formatted, InLine, Beyond, Text
  <2> QED BY <2>2, <2>4, <2>5, SMT
<1> QED BY <1>0, <1>1, <1>2 DEF Tracked

(* What leaves the loop alone: the interrupt, and everything between two   *)
(* commands.                                                               *)
LEMMA LoopKept ==
  ASSUME TypeInv, Tracked, Unmixed, dropped \subseteq dropped',
         UNCHANGED <<parser, executed>>, last' = last \/ handler = None,
         \A n \in 1 .. Len(typed) : typed'[n] = typed[n]
  PROVE  Tracked' /\ Unmixed'
<1>1. UNCHANGED <<message_sr, message_index, handler, param, args, break_loop, executed>>
  BY DEF parser
<1>2. \A n : Whole(n)' => Whole(n)
  BY DEF Whole
<1>3. Unmixed'
  BY <1>1, <1>2 DEF Unmixed, Own, Whole
<1>4. Tracked'
  <2>1. CASE handler = None
    BY <1>1, <2>1 DEF Tracked
  <2>2. CASE handler # None
    <3>1. handler[1] \in 1 .. Len(typed) /\ typed'[handler[1]] = typed[handler[1]] /\ last' = last
      BY <2>2, InLoop
    <3>2. handler' # None /\ Whole(handler[1])' => OwnArguments /\ (InLine \/ Beyond) /\ ModeEnds /\ FeedMode
      BY <1>1, <1>2, <2>2 DEF Tracked, Whole
    <3>3. OwnArguments => OwnArguments'
      BY <1>1 DEF OwnArguments, Own
    <3>4. InLine => InLine'
      BY <1>1, <3>1 DEF InLine, Own
    <3>5. Beyond => Beyond'
      BY <1>1, <3>1 DEF Beyond
    <3>6. (ModeEnds => ModeEnds') /\ (FeedMode => FeedMode')
      BY <1>1, <3>1, Zenon DEF ModeEnds, FeedMode, Word
    <3> QED BY <1>1, <3>2, <3>3, <3>4, <3>5, <3>6 DEF Tracked, Whole
  <2> QED BY <2>1, <2>2
<1> QED BY <1>3, <1>4

(* A command that runs with arguments of its own line mixes nothing.       *)
LEMMA RunUnmixed ==
  ASSUME TypeInv, Unmixed, NEW word \in Piece, NEW arguments \in Seq(Seq(Piece)),
         Run(word, arguments), dropped' = dropped,
         Whole(word[1]) => \A j \in 1 .. Len(arguments) : Own(arguments[j], word[1])
  PROVE  Unmixed'
<1>1. /\ Len(executed) \in Nat /\ Len(executed') = Len(executed) + 1
      /\ \A k \in 1 .. Len(executed) : executed'[k] = executed[k]
      /\ executed'[Len(executed) + 1] = [line |-> word[1], args |-> arguments]
  BY Recorded
<1> SUFFICES ASSUME NEW k \in 1 .. Len(executed'), Whole(executed'[k].line)
             PROVE  \A j \in 1 .. Len(executed'[k].args) :
                      Own(executed'[k].args[j], executed'[k].line)
  BY DEF Unmixed, Own, Whole
<1>2. k \in 1 .. Len(executed) \/ k = Len(executed) + 1
  BY <1>1, SMT
<1>3. CASE k \in 1 .. Len(executed)
  BY <1>1, <1>3 DEF Unmixed
<1>4. CASE k = Len(executed) + 1
  <2>1. executed'[k].line = word[1] /\ executed'[k].args = arguments
    BY <1>1, <1>4
  <2> QED BY <2>1
<1> QED BY <1>2, <1>3, <1>4

LEMMA BetweenTracked ==
  ASSUME ParserInv, NEW token,
         IgnoreLineEnd(token) \/ Accumulate(token) \/ RunAtOnce(token)
  PROVE  Tracked' /\ Unmixed'
<1>0. TypeInv /\ Unmixed
  BY DEF ParserInv
<1>1. Receive(token) /\ handler' = None /\ (UNCHANGED executed \/ Run(token, << >>))
  BY DEF IgnoreLineEnd, Accumulate, RunAtOnce, parser
<1>2. token \in Piece /\ dropped' = dropped
  BY <1>0, <1>1, Received
<1>3. Tracked'
  BY <1>1 DEF Tracked
<1>4. CASE UNCHANGED executed
  BY <1>0, <1>2, <1>3, <1>4 DEF Unmixed, Own, Whole
<1>5. CASE Run(token, << >>)
  <2>1. << >> \in Seq(Seq(Piece)) /\ \A j : j \notin 1 .. Len(<< >>)
    BY SMT
  <2>2. \A j \in 1 .. Len(<< >>) : Own(<< >>[j], token[1])
    BY <2>1
  <2> QED BY <1>0, <1>2, <1>3, <1>5, <2>1, <2>2, RunUnmixed
<1> QED BY <1>1, <1>3, <1>4, <1>5

LEMMA BeginTracked ==
  ASSUME ParserInv, NEW token, BeginArguments(token)
  PROVE  Tracked' /\ Unmixed'
<1>0. TypeInv /\ Unmixed
  BY DEF ParserInv
<1>1. /\ Receive(token) /\ Found(token) /\ handler' = token /\ param' = 0
      /\ message_index' = 0 /\ UNCHANGED executed
      /\ message_sr' = IF Word(token) \in Clearing THEN << >> ELSE <<token>>
      /\ args' = [j \in DOMAIN Command[Word(token)].copy |-> << >>]
  BY DEF BeginArguments, Found
<1>2. token \in Piece /\ last' = token /\ dropped' = dropped /\ typed' = typed
  BY <1>0, <1>1, Received
<1>3. token[2] = 1 /\ Word(token) \in KnownWord
  BY <1>1 DEF Found
<1>4. Unmixed'
  BY <1>0, <1>1, <1>2 DEF Unmixed, Own, Whole
<1>5. OwnArguments'
  <2>1. PICK n \in Nat : DOMAIN Command[Word(token)].copy = 1 .. n
    BY <1>3, FormatFacts DEF Fine
  <2>2. args' = [j \in 1 .. n |-> << >>] /\ Len(args') = n
    BY <1>1, <2>1
  <2>3. \A j \in 1 .. n : args'[j] = << >>
    BY <2>2
  <2>4. \A k : k \notin 1 .. Len(<< >>)
    BY SMT
  <2> QED BY <2>2, <2>3, <2>4 DEF OwnArguments, Own
<1>6. InLine'
  <2>1. \A k \in 1 .. Len(message_sr') : message_sr'[k] = token
    BY <1>1, SMT
  <2>2. Cardinality(SeparatorsUpTo(typed[token[1]], 1)) = 0
    BY NoneCounted
  <2>3. typed'[handler'[1]] = typed[token[1]] /\ last'[2] = 1 /\ last'[1] = handler'[1]
    BY <1>1, <1>2, <1>3
  <2>4. Cardinality(SeparatorsUpTo(typed[token[1]], 1)) = param'
    BY <1>1, <2>2
  <2>5. Own(message_sr, handler[1])'
    BY <1>1, <2>1 DEF Own
  <2> QED BY <2>3, <2>4, <2>5 DEF InLine
<1>7. ModeEnds'
  BY <1>1, SMT DEF ModeEnds
<1>8. FeedMode'
  <2>1. Word(handler)' = Word(token)
    BY <1>1, <1>2 DEF Word
  <2>2. "AT+MGWF " \notin Clearing
    BY DEF Clearing
  <2>3. Word(token) = "AT+MGWF " => message_sr' = <<token>> /\ message_sr' # << >>
    BY <1>1, <2>2
  <2>4. ~(param' >= 1)
    BY <1>1, SMT
  <2> QED BY <1>1, <1>2, <2>1, <2>3, <2>4, Zenon DEF FeedMode
<1> QED BY <1>4, <1>5, <1>6, <1>7, <1>8 DEF Tracked

(* A character is collected.                                               *)
LEMMA CollectTracked ==
  ASSUME ParserInv, NEW token, CollectText(token)
  PROVE  Tracked' /\ Unmixed'
<1>0. TypeInv /\ Unmixed /\ Tracked
  BY DEF ParserInv
<1>1. /\ Receive(token) /\ handler # None /\ ~Separates(token)
      /\ message_sr' = Append(Content, token) /\ message_index' = message_index + 1
      /\ UNCHANGED <<handler, param, args, break_loop, executed>>
  BY DEF CollectText
<1>2. token \in Piece /\ last' = token /\ dropped' = dropped /\ typed' = typed
  BY <1>0, <1>1, Received
<1>3. Unmixed'
  BY <1>0, <1>1, <1>2 DEF Unmixed, Own, Whole
<1>4. PICK h \in Nat : h = handler[1]
  BY <1>0, <1>1, InLoop
<1>5. PICK l \in Line : l = typed[h] /\ l.word = Word(handler) /\ l.word \in KnownWord
  BY <1>0, <1>1, <1>4, InLoop DEF Word
<1>6. handler'[1] = h /\ typed'[h] = l /\ Word(handler)' = Word(handler)
  BY <1>1, <1>2, <1>4, <1>5 DEF Word
<1> SUFFICES ASSUME Whole(h)' PROVE OwnArguments' /\ (InLine' \/ Beyond') /\ ModeEnds' /\ FeedMode'
  BY <1>3, <1>6 DEF Tracked, Whole
<1>7. Whole(h)
  BY <1>2 DEF Whole
<1>8. OwnArguments /\ (InLine \/ Beyond) /\ ModeEnds /\ FeedMode
  BY <1>0, <1>1, <1>4, <1>7 DEF Tracked
<1>9. OwnArguments' /\ ModeEnds'
  BY <1>1, <1>6, <1>8, Zenon DEF OwnArguments, Own, ModeEnds
<1>10. \/ /\ InLine /\ last[2] \in Nat /\ last[2] >= 1
          /\ token = <<h, last[2] + 1>>
          /\ Kind(token) = LineText(l)[last[2] + 1]
       \/ Beyond
  BY <1>1, <1>4, <1>5, <1>7, Continues
<1>11. /\ Len(message_sr') = message_index + 1 /\ message_index \in Nat /\ Len(message_sr) \in Nat
       /\ \A k \in 1 .. message_index : message_sr'[k] = message_sr[k] /\ k \in 1 .. Len(message_sr)
       /\ message_sr'[message_index + 1] = token
  <2>1. message_sr \in Seq(Piece) /\ message_index \in 0 .. Len(message_sr)
    BY <1>0 DEF TypeInv, ParserOK
  <2>2. Len(message_sr) \in Nat
    BY <2>1, LenProperties
  <2> QED BY <1>0, <1>1, <1>2, <2>1, <2>2, Stored, SMT
<1>12. CASE Beyond
  <2>1. Beyond'
    BY <1>1, <1>4, <1>5, <1>6, <1>12 DEF Beyond
  <2>2. FeedMode'
    <3>1. ASSUME Word(handler) = "AT+MGWF " PROVE param # 0
      <4>1. Needed(l) = 6 \/ Needed(l) = 9
        BY <1>5, <3>1, NeededFacts, Zenon
      <4>2. param >= Needed(l)
        BY <1>4, <1>5, <1>12 DEF Beyond
      <4> QED BY <4>1, <4>2, SMT
    <3> QED BY <1>1, <1>6, <1>8, <3>1, Zenon DEF FeedMode
  <2> QED BY <1>9, <2>1, <2>2
<1>13. CASE InLine /\ last[2] \in Nat /\ last[2] >= 1 /\ token = <<h, last[2] + 1>>
            /\ Kind(token) = LineText(l)[last[2] + 1]
  <2>1. PICK i \in Nat : i = last[2] /\ i >= 1 /\ token = <<h, i + 1>> /\ token[2] = i + 1 /\ token[1] = h
    BY <1>13
  <2>2. LineText(l)[i + 1] \notin Command[l.word].separators
    BY <1>1, <1>5, <1>13, <2>1 DEF Separates, Format
  <2>3. Cardinality(SeparatorsUpTo(l, i + 1)) = Cardinality(SeparatorsUpTo(l, i))
    BY <2>1, <2>2, Counted
  <2>4. \A k \in 1 .. Len(message_sr') : message_sr'[k][1] = h
    <3>1. \A k \in 1 .. Len(message_sr') : k \in 1 .. message_index \/ k = message_index + 1
      BY <1>11, SMT
    <3> QED BY <1>4, <1>11, <1>13, <2>1, <3>1, Zenon DEF InLine, Own
  <2>5. InLine'
    <3>1. param = Cardinality(SeparatorsUpTo(l, i))
      BY <1>4, <1>5, <1>13, <2>1 DEF InLine
    <3>2. last'[1] = handler'[1] /\ last'[2] = i + 1 /\ typed'[handler'[1]] = l /\ param' = param
      BY <1>1, <1>2, <1>6, <2>1
    <3> QED BY <1>6, <2>3, <2>4, <3>1, <3>2 DEF InLine, Own
  <2>6. FeedMode'
    <3>1. CASE message_index = 0
      <4>1. message_sr'[1] = token /\ Len(message_sr') = 1
        BY <1>11, <3>1, SMT
      <4>2. Word(handler) = "AT+MGWF " /\ param = 0 => token = <<h, 2>>
        <5>0. SUFFICES ASSUME Word(handler) = "AT+MGWF ", param = 0 PROVE token = <<h, 2>>
          OBVIOUS
        <5>1. handler[2] = 1
          BY <1>0, <1>1, InLoop
        <5>2. last = handler
          BY <1>8, <3>1, <5>0, Zenon DEF FeedMode
        <5>3. i = 1
          BY <2>1, <5>1, <5>2
        <5>4. i + 1 = 2
          BY <5>3, SMT
        <5> QED BY <2>1, <5>4, Zenon
      <4>3. message_index' # 0 /\ message_sr' # << >>
        BY <1>1, <3>1, <4>1, EmptySeq, SMT
      <4> QED BY <1>1, <1>6, <1>8, <4>1, <4>2, <4>3, Zenon DEF FeedMode
    <3>2. CASE message_index # 0
      <4>1. message_sr'[1] = message_sr[1]
        <5>1. 1 \in 1 .. message_index
          BY <1>11, <3>2, SMT
        <5> QED BY <1>11, <5>1
      <4>2. message_index' # 0 /\ message_sr' # << >>
        BY <1>1, <1>11, <3>2, EmptySeq, SMT
      <4> QED BY <1>1, <1>4, <1>6, <1>8, <3>2, <4>1, <4>2, Zenon DEF FeedMode
    <3> QED BY <3>1, <3>2
  <2> QED BY <1>9, <2>5, <2>6
<1> QED BY <1>10, <1>12, <1>13

(* A separator beyond those of the line ends no argument.                  *)
LEMMA NothingCopied ==
  ASSUME ParserInv, handler # None, Whole(handler[1]), ~break_loop, Beyond
  PROVE  \A j \in DOMAIN args : Copied(param + 1)[j] = args[j]
<1>0. TypeInv /\ Tracked
  BY DEF ParserInv
<1>1. ModeEnds /\ FeedMode
  BY <1>0 DEF Tracked
<1>2. PICK h \in Nat : h = handler[1] /\ h \in 1 .. Len(typed) /\ handler[2] = 1
  BY <1>0, InLoop
<1>3. PICK l \in Line : l = typed[h] /\ l.word = Word(handler) /\ l.word \in KnownWord
  BY <1>0, <1>2, InLoop DEF Word
<1>4. param \in Nat /\ param >= Needed(l)
  BY <1>0, <1>2, <1>3 DEF Beyond, TypeInv, ParserOK
<1>5. Word(handler) \notin Mode
  <2> SUFFICES ASSUME Word(handler) \in Mode PROVE FALSE
    OBVIOUS
  <2>1. Needed(l) = 1
    BY <1>3, NeededFacts
  <2> QED BY <1>1, <1>4, <2>1 DEF ModeEnds
<1>6. DOMAIN args = DOMAIN Format.copy /\ Format = Command[l.word] /\ Fine(Format)
  BY <1>0, <1>3, InLoop DEF Format
<1> SUFFICES ASSUME NEW j \in DOMAIN args, Copied(param + 1)[j] # args[j]
             PROVE  FALSE
  OBVIOUS
<1>7. /\ Format.copy[j] = param + 1
      /\ Word(handler) = "AT+MGWF " /\ j = 4 => Kind(args[1][1]) = "One"
  BY <1>0, <1>5, CopiedArguments
<1>8. param + 1 <= Format.end /\ Format.end \in Nat
  <2>1. Format.copy[j] \in 1 .. Format.end /\ Format.end \in Nat
    BY <1>6 DEF Fine
  <2>2. Format.copy[j] = param + 1
    BY <1>7
  <2> QED BY <2>1, <2>2, SMT
<1>9. CASE Word(handler) # "AT+MGWF "
  <2>1. Needed(l) = Format.end
    BY <1>3, <1>6, <1>9, NeededFacts
  <2> QED BY <1>4, <1>8, <2>1, SMT
<1>10. CASE Word(handler) = "AT+MGWF "
  <2>1. Needed(l) = 6 /\ LineText(l)[2] # "One"
    <3>1. Needed(l) # 9
      <4>1. Format.end = 9
        BY <1>3, <1>6, <1>10, FormatFacts
      <4> QED BY <1>4, <1>8, <4>1, SMT
    <3> QED BY <1>3, <1>10, <3>1, NeededFacts, Zenon
  <2>2. j = 4
    <3>1. Format.copy = <<1, 3, 6, 9>>
      BY <1>3, <1>6, <1>10, FormatFacts
    <3>2. \A k \in DOMAIN <<1, 3, 6, 9>> : k = 4 \/ <<1, 3, 6, 9>>[k] <= 6
      OBVIOUS
    <3>3. param >= 6
      BY <1>4, <2>1, Zenon
    <3>4. ~(param + 1 <= 6)
      BY <1>4, <3>3, SMT
    <3> QED BY <1>6, <1>7, <3>1, <3>2, <3>4, Zenon
  <2>3. args[1][1] \in {handler, <<h, 2>>}
    <3>1. param >= 1
      BY <1>4, <2>1, SMT
    <3> QED BY <1>1, <1>2, <1>10, <3>1, Zenon DEF FeedMode
  <2>4. Kind(handler) = "AT+MGWF "
    <3>1. Text(h)[1] = typed[h].word
      BY <1>0, <1>2, TextAt DEF TypeInv, HostOK
    <3> QED BY <1>2, <1>3, <1>10, <3>1 DEF Kind
  <2>5. Kind(<<h, 2>>) = LineText(l)[2]
    BY <1>3 DEF Kind, Text
  <2> QED BY <1>7, <1>10, <2>1, <2>2, <2>3, <2>4, <2>5
<1> QED BY <1>9, <1>10

LEMMA SeparatorTracked ==
  ASSUME ParserInv, NEW token, Separator(token)
  PROVE  Tracked' /\ Unmixed'
<1>0. TypeInv /\ Unmixed /\ Tracked
  BY DEF ParserInv
<1>1. /\ Receive(token) /\ handler # None /\ Separates(token) /\ ~break_loop
      /\ param' = param + 1 /\ args' = Copied(param + 1)
      /\ break_loop' \in Ends(param + 1)
      /\ Run(handler, args') \/ UNCHANGED executed
      /\ UNCHANGED <<message_sr, handler>>
  BY DEF Separator
<1>2. token \in Piece /\ last' = token /\ dropped' = dropped /\ typed' = typed
  BY <1>0, <1>1, Received
<1>3. \A n : Whole(n)' = Whole(n)
  BY <1>2 DEF Whole
<1>4. PICK h \in Nat : h = handler[1] /\ h \in 1 .. Len(typed) /\ handler \in Piece
  BY <1>0, <1>1, InLoop
<1>5. PICK l \in Line : l = typed[h] /\ l.word = Word(handler) /\ l.word \in KnownWord
  BY <1>0, <1>1, <1>4, InLoop DEF Word
<1>6. handler'[1] = h /\ typed'[h] = l /\ Word(handler)' = Word(handler)
  BY <1>1, <1>2, <1>4, <1>5 DEF Word
<1>7. PICK a \in Seq(Seq(Piece)) : a = Copied(param + 1) /\ a = args'
  BY <1>0, <1>1, CopiedArguments
<1>8. param \in Nat /\ message_sr \in Seq(Piece) /\ message_index \in 0 .. Len(message_sr)
  BY <1>0 DEF TypeInv, ParserOK
<1>9. Len(a) = Len(args) /\ DOMAIN args = 1 .. Len(args)
  BY <1>0, <1>1, <1>7, CopiedArguments
<1>10. ASSUME Whole(h)
       PROVE  /\ OwnArguments /\ ModeEnds /\ FeedMode
              /\ \/ /\ InLine /\ last[2] \in Nat /\ last[2] >= 1
                    /\ token = <<h, last[2] + 1>>
                    /\ Kind(token) = LineText(l)[last[2] + 1]
                 \/ Beyond
  BY <1>0, <1>1, <1>4, <1>5, <1>10, Continues DEF Tracked
<1>11. ASSUME Whole(h), InLine PROVE Own(message_sr, h) /\ Own(Content, h)
  <2>1. Own(message_sr, h)
    BY <1>4, <1>11 DEF InLine
  <2>2. /\ Len(Content) = message_index
        /\ \A k \in 1 .. message_index : Content[k] = message_sr[k]
    BY <1>0, <1>2, Stored
  <2>3. \A k \in 1 .. message_index : k \in 1 .. Len(message_sr)
    BY <1>8, LenProperties, SMT
  <2> QED BY <2>1, <2>2, <2>3 DEF Own
<1>12. ASSUME Whole(h) PROVE \A j \in 1 .. Len(a) : Own(a[j], h)
  <2>1. \A j \in 1 .. Len(args) : Own(args[j], h)
    BY <1>4, <1>10, <1>12 DEF OwnArguments
  <2>2. CASE Beyond
    BY <1>0, <1>1, <1>4, <1>7, <1>9, <1>12, <2>1, <2>2, NothingCopied
  <2>3. CASE InLine
    <3>1. \A j \in 1 .. Len(args) : a[j] = args[j] \/ a[j] \in {Content, message_sr}
      BY <1>0, <1>1, <1>7, <1>9, CopiedArguments
    <3> QED BY <1>9, <1>11, <1>12, <2>1, <2>3, <3>1
  <2> QED BY <1>10, <1>12, <2>2, <2>3
<1>13. Unmixed'
  <2>1. CASE UNCHANGED executed
    BY <1>0, <1>3, <2>1 DEF Unmixed, Own, Whole
  <2>2. CASE Run(handler, args')
    <3>1. Run(handler, a)
      BY <1>7, <2>2
    <3> QED BY <1>0, <1>2, <1>4, <1>12, <3>1, RunUnmixed
  <2> QED BY <1>1, <2>1, <2>2
<1> SUFFICES ASSUME Whole(h)' PROVE OwnArguments' /\ (InLine' \/ Beyond') /\ ModeEnds' /\ FeedMode'
  BY <1>13, <1>6 DEF Tracked, Whole
<1>14. Whole(h)
  BY <1>3
<1>15. OwnArguments'
  <2>1. \A j \in 1 .. Len(a) : \A k \in 1 .. Len(a[j]) : a[j][k][1] = h
    BY <1>12, <1>14 DEF Own
  <2> QED BY <1>6, <1>7, <2>1 DEF OwnArguments, Own
<1>16. InLine' \/ Beyond'
  <2>1. CASE Beyond
    <3>1. param >= Needed(l) /\ Needed(l) \in Nat
      BY <1>4, <1>5, <2>1, NeededFacts DEF Beyond
    <3>2. param' >= Needed(l)
      BY <1>1, <1>8, <3>1, SMT
    <3> QED BY <1>6, <3>2 DEF Beyond
  <2>2. CASE InLine /\ last[2] \in Nat /\ last[2] >= 1 /\ token = <<h, last[2] + 1>>
             /\ Kind(token) = LineText(l)[last[2] + 1]
    <3>1. PICK i \in Nat : i = last[2] /\ i >= 1 /\ token[2] = i + 1 /\ token[1] = h
      BY <2>2
    <3>2. LineText(l)[i + 1] \in Command[l.word].separators
      BY <1>1, <1>5, <2>2, <3>1 DEF Separates, Format
    <3>3. Cardinality(SeparatorsUpTo(l, i + 1)) = Cardinality(SeparatorsUpTo(l, i)) + 1
      BY <3>1, <3>2, Counted
    <3>4. param = Cardinality(SeparatorsUpTo(l, i))
      BY <1>4, <1>5, <2>2, <3>1 DEF InLine
    <3>5. last'[1] = handler'[1] /\ last'[2] = i + 1 /\ typed'[handler'[1]] = l
      BY <1>2, <1>6, <3>1
    <3>6. Own(message_sr, handler[1])'
      BY <1>1, <1>4, <1>6, <2>2 DEF InLine, Own
    <3>7. param' = Cardinality(SeparatorsUpTo(l, i + 1))
      BY <1>1, <3>3, <3>4
    <3> QED BY <3>5, <3>6, <3>7 DEF InLine
  <2> QED BY <1>10, <1>14, <2>1, <2>2
<1>17. ModeEnds'
  <2> SUFFICES ASSUME Word(handler) \in Mode PROVE break_loop' = TRUE
    BY <1>6 DEF ModeEnds
  <2>1. ~(param >= 1)
    BY <1>1, <1>10, <1>14 DEF ModeEnds
  <2>2. InLine
    <3>1. Needed(l) = 1
      BY <1>5, NeededFacts
    <3>2. ~Beyond
      BY <1>4, <1>5, <2>1, <3>1 DEF Beyond
    <3> QED BY <1>10, <1>14, <3>2
  <2>3. Own(message_sr, h)
    BY <1>11, <1>14, <2>2
  <2>4. Word(handler) \notin Connect
    BY Zenon DEF Mode, Connect
  <2>5. \A k \in DOMAIN message_sr : message_sr[k][1] = handler[1]
    BY <1>4, <1>8, <2>3, LenProperties DEF Own
  <2>6. Ends(param + 1) = {TRUE}
    BY <2>4, <2>5, Zenon DEF Ends
  <2> QED BY <1>1, <2>6
<1>18. param \in Nat /\ param' = param + 1 /\ ~(param' = 0)
  BY <1>1, <1>8
<1>19. FeedMode'
  <2>0. SUFFICES ASSUME Word(handler) = "AT+MGWF "
                 PROVE  a[1] # << >> /\ a[1][1] \in {handler, <<h, 2>>}
    BY <1>1, <1>6, <1>7, <1>18, Zenon DEF FeedMode
  <2>1. Format.copy = <<1, 3, 6, 9>> /\ DOMAIN Format.copy = DOMAIN args
    BY <1>0, <1>1, <1>5, <2>0, InLoop, FormatFacts DEF Format
  <2>2. 1 \in DOMAIN args /\ Format.copy[1] = 1
    <3>1. 1 \in DOMAIN <<1, 3, 6, 9>> /\ <<1, 3, 6, 9>>[1] = 1
      OBVIOUS
    <3> QED BY <2>1, <3>1, Zenon
  <2>3. Word(handler) \notin Mode /\ Word(handler) \notin ToServer
    BY <2>0, Zenon DEF Mode, ToServer
  <2>4. CASE param = 0
    <3>1. a[1] = message_sr
      <4>1. param + 1 = 1 /\ ~(1 = 4)
        BY <2>4, SMT
      <4> QED BY <1>7, <2>2, <2>3, <4>1, Zenon DEF Copied
    <3>2. /\ message_sr # << >>
          /\ message_index = 0 => message_sr = <<handler>>
          /\ message_index # 0 => message_sr[1] = <<h, 2>>
      BY <1>4, <1>10, <1>14, <2>0, <2>4, Zenon DEF FeedMode
    <3>3. CASE message_index = 0
      <4>1. message_sr[1] = handler
        BY <3>2, <3>3
      <4> QED BY <3>1, <3>2, <4>1
    <3>4. CASE message_index # 0
      BY <3>1, <3>2, <3>4
    <3> QED BY <3>3, <3>4
  <2>5. CASE param # 0
    <3>1. param >= 1 /\ param + 1 # 1
      BY <1>18, <2>5, SMT
    <3>2. a[1] = args[1]
      BY <1>7, <2>2, <2>3, <3>1, Zenon DEF Copied
    <3> QED BY <1>4, <1>10, <1>14, <2>0, <3>1, <3>2, Zenon DEF FeedMode
  <2> QED BY <2>4, <2>5
<1> QED BY <1>15, <1>16, <1>17, <1>19

LEMMA LeaveTracked ==
  ASSUME ParserInv, handler # None, Leave, dropped' = dropped
  PROVE  Tracked' /\ Unmixed'
<1>0. TypeInv /\ Unmixed /\ Tracked
  BY DEF ParserInv
<1>1. handler' = None /\ (UNCHANGED executed \/ Run(handler, args))
  BY DEF Leave
<1>2. Tracked'
  BY <1>1 DEF Tracked
<1>3. CASE UNCHANGED executed
  BY <1>0, <1>2, <1>3 DEF Unmixed, Own, Whole
<1>4. CASE Run(handler, args)
  <2>1. args \in Seq(Seq(Piece)) /\ handler \in Piece
    BY <1>0, InLoop DEF TypeInv, ParserOK
  <2>2. Whole(handler[1]) => \A j \in 1 .. Len(args) : Own(args[j], handler[1])
    BY <1>0 DEF Tracked, OwnArguments
  <2> QED BY <1>0, <1>2, <1>4, <2>1, <2>2, RunUnmixed
<1> QED BY <1>1, <1>2, <1>3, <1>4

LEMMA ReadMixes ==
  ASSUME ParserInv, read_sr
  PROVE  Unbroken' /\ Tracked' /\ Unmixed'
<1>0. TypeInv /\ Unbroken /\ Tracked /\ Unmixed
  BY DEF ParserInv
<1>1. ASSUME NEW token,
             \/ IgnoreLineEnd(token) \/ Accumulate(token)
             \/ RunAtOnce(token) \/ BeginArguments(token)
             \/ CollectText(token) \/ Separator(token) \/ LeaveAfter(token)
      PROVE  Unbroken' /\ Tracked' /\ Unmixed'
  <2>1. Receive(token)
    BY <1>1 DEF IgnoreLineEnd, Accumulate, RunAtOnce, BeginArguments, CollectText,
                Separator, LeaveAfter
  <2>2. Unbroken' /\ dropped' = dropped
    BY <1>0, <2>1, ReceiveUnbroken, Received
  <2>3. LeaveAfter(token) => Tracked' /\ Unmixed'
    BY <2>2, LeaveTracked DEF LeaveAfter
  <2>4. Tracked' /\ Unmixed'
    BY <1>1, <2>3, BetweenTracked, BeginTracked, CollectTracked, SeparatorTracked, Zenon
  <2> QED BY <2>2, <2>4
<1>2. ASSUME ReceiveNothing PROVE Unbroken' /\ dropped' = dropped /\ typed' = typed /\ last' = last
  <2>1. UNCHANGED <<typed, position, xQueueUART, dropped, last>>
    BY <1>0, <1>2, NothingReceived
  <2> QED BY <1>0, <2>1 DEF Unbroken, Succeeds, Latest, Waiting, Whole, Text
<1>3. CASE Pause
  <2>1. Unbroken' /\ dropped' = dropped
    BY <1>2, <1>3 DEF Pause
  <2>2. handler' = None /\ UNCHANGED executed
    BY <1>3 DEF Pause
  <2>3. Tracked'
    BY <2>2 DEF Tracked
  <2>4. Unmixed'
    BY <1>0, <2>1, <2>2 DEF Unmixed, Own, Whole
  <2> QED BY <2>1, <2>3, <2>4
<1>4. CASE LeaveEmpty
  BY <1>2, <1>4, LeaveTracked DEF LeaveEmpty
<1> QED BY <1>1, <1>3, <1>4 DEF read_sr

LEMMA IsrMixes ==
  ASSUME ParserInv, _uart0_rx_isr
  PROVE  Unbroken' /\ Tracked' /\ Unmixed'
<1>0. TypeInv /\ Unbroken /\ Tracked /\ Unmixed
  BY DEF ParserInv
<1>1. PICK n, i \in Nat :
        Arrive(n, i) /\ (UNCHANGED typed \/ (\E l \in Line : typed' = Append(typed, l)))
  BY <1>0, IsrFacts
<1>2. \A m \in 1 .. Len(typed) : typed'[m] = typed[m]
  BY <1>0, <1>1, TypedKept DEF TypeInv, HostOK
<1>3. UNCHANGED <<parser, executed, last>> /\ dropped \subseteq dropped'
  BY <1>1 DEF Arrive
<1>4. Unbroken'
  BY <1>0, ArriveUnbroken
<1> QED BY <1>0, <1>2, <1>3, <1>4, LoopKept

LEMMA StepUnmixed == ParserInv /\ [Next]_vars => ParserInv'
<1> SUFFICES ASSUME ParserInv, [Next]_vars PROVE ParserInv'
  OBVIOUS
<1>0. TypeInv /\ Unbroken /\ Tracked /\ Unmixed
  BY DEF ParserInv
<1>1. TypeInv'
  BY <1>0, StepTyped
<1>2. CASE _uart0_rx_isr
  BY <1>1, <1>2, IsrMixes DEF ParserInv
<1>3. CASE read_sr
  BY <1>1, <1>3, ReadMixes DEF ParserInv
<1>4. CASE UNCHANGED vars
  <2>1. UNCHANGED <<typed, position, xQueueUART, parser, executed, last, dropped>>
    BY <1>4 DEF vars, host
  <2>2. Unbroken'
    BY <1>0, <2>1 DEF Unbroken, Succeeds, Latest, Waiting, Whole, Text
  <2>3. Tracked' /\ Unmixed'
    BY <1>0, <2>1, LoopKept
  <2> QED BY <1>1, <2>2, <2>3 DEF ParserInv
<1> QED BY <1>2, <1>3, <1>4 DEF Next

LEMMA InitUnmixed == Init => ParserInv
<1> SUFFICES ASSUME Init PROVE ParserInv
  OBVIOUS
<1>1. xQueueUART = << >> /\ last = None /\ handler = None /\ executed = << >> /\ Len(<< >>) = 0
  BY DEF Init
<1>2. Waiting(0) = None /\ Len(xQueueUART) = 0
  BY <1>1 DEF Waiting
<1>3. \A k : k \notin 0 .. 0 - 1 /\ k \notin 1 .. 0
  BY SMT
<1>4. Unbroken
  BY <1>2, <1>3, Zenon DEF Unbroken, Latest
<1>5. Unmixed
  BY <1>1, <1>3, Zenon DEF Unmixed
<1>6. Tracked
  BY <1>1 DEF Tracked
<1> QED BY <1>4, <1>5, <1>6, InitTyped DEF ParserInv

LEMMA Unmixing == ParserInv => NoMixing
<1> SUFFICES ASSUME ParserInv, NEW k \in DOMAIN executed, Whole(executed[k].line),
                    NEW j \in DOMAIN executed[k].args,
                    NEW c \in DOMAIN executed[k].args[j]
             PROVE  executed[k].args[j][c][1] = executed[k].line
  BY DEF NoMixing
<1>1. executed \in Seq([line : Nat, args : Seq(Seq(Piece))]) /\ Unmixed
  BY DEF ParserInv, TypeInv, ParserOK
<1>2. k \in 1 .. Len(executed) /\ executed[k].args \in Seq(Seq(Piece))
  <2>1. DOMAIN executed = 1 .. Len(executed)
    BY <1>1, LenProperties
  <2>2. executed[k] \in [line : Nat, args : Seq(Seq(Piece))]
    BY <1>1, <2>1, ElementOfSeq
  <2> QED BY <2>1, <2>2
<1>3. j \in 1 .. Len(executed[k].args) /\ executed[k].args[j] \in Seq(Piece)
  BY <1>2
<1>4. c \in 1 .. Len(executed[k].args[j])
  BY <1>3
<1> QED BY <1>1, <1>2, <1>3, <1>4 DEF Unmixed, Own

(* A command never runs with what was typed for another: an interruption   *)
(* ends it or leaves it waiting, a line without its word is forgotten, and *)
(* whatever is executed is made of tokens of its own line - of any line of *)
(* the formats that lost no token, for any number of lines and any length  *)
(* of the queue (user_main.c:178-187).                                     *)
THEOREM NeverMixed == Spec => []NoMixing
<1>1. Spec => []ParserInv
  BY InitUnmixed, StepUnmixed, PTL DEF Spec
<1> QED BY <1>1, Unmixing, PTL

(* What separates, how the commands differ, and how a line ends.           *)
Sound(f) ==
  /\ "LF" \notin f.separators
  /\ f # NoArguments => f.end \in Nat \ {0}

LEMMA SoundFormats ==
  /\ Sound(NoArguments)
  /\ \A s : "LF" \notin s =>
       /\ Sound(Arguments(s, <<1>>, 1)) /\ Sound(Arguments(s, <<2>>, 2))
       /\ Sound(Arguments(s, <<2, 5>>, 5)) /\ Sound(Arguments(s, <<2, 4>>, 4))
       /\ Sound(Arguments(s, <<2, 5, 8, 11>>, 11)) /\ Sound(Arguments(s, <<1, 3, 6, 9>>, 9))
<1>1. Sound(NoArguments)
  BY SMT DEF Sound, NoArguments, Arguments
<1>2. ASSUME NEW s, "LF" \notin s, NEW c, NEW e \in Nat \ {0}
      PROVE  Sound(Arguments(s, c, e))
  BY <1>2 DEF Sound, Arguments
<1>3. /\ 1 \in Nat \ {0} /\ 2 \in Nat \ {0} /\ 4 \in Nat \ {0} /\ 5 \in Nat \ {0}
      /\ 9 \in Nat \ {0} /\ 11 \in Nat \ {0}
  BY SMT
<1> QED BY <1>1, <1>2, <1>3, Zenon

LEMMA SoundNamed ==
  /\ Sound(ECHOMODE) /\ Sound(PUSHMODE) /\ Sound(SETUPWIFI) /\ Sound(CHECKSTATUS_WIFI)
  /\ Sound(CONNECT_TO_SERVER1_BY_CLIENT1) /\ Sound(CONNECT_TO_SERVER2_BY_CLIENT2)
  /\ Sound(DISCONNECT_FROM_SERVER) /\ Sound(CHECKSTATUS_CLIENT)
  /\ Sound(PRINT_TO_SERVER1) /\ Sound(PRINT_TO_SERVER2)
  /\ Sound(READ_DATA_FROM_CLIENT1_BUFFER) /\ Sound(READ_DATA_FROM_CLIENT1_BUFFER_TO_ARDUINO_LIB)
  /\ Sound(READ_DATA_FROM_CLIENT2_BUFFER) /\ Sound(READ_DATA_FROM_CLIENT2_BUFFER_TO_ARDUINO_LIB)
  /\ Sound(CONNECT_TO_NETPIE) /\ Sound(DISCONNECT_FROM_NETPIE)
  /\ Sound(SETUP_TOKEN) /\ Sound(INIT_MICROGEAR) /\ Sound(SET_ALIAS_NAME)
  /\ Sound(PUBLISH) /\ Sound(SUBSCRIBE) /\ Sound(UNSUBSCRIBE) /\ Sound(CHAT)
  /\ Sound(PULL_MESSAGE) /\ Sound(WRITE_FEED)
<1>1. /\ "LF" \notin {"CR"} /\ "LF" \notin {"Quote"} /\ "LF" \notin {"Quote", "Comma"}
      /\ "LF" \notin {"Quote", "CR", "Comma"}
  BY Zenon
<1> QED
  BY <1>1, SoundFormats, Zenon
     DEF ECHOMODE, PUSHMODE, SETUPWIFI, CHECKSTATUS_WIFI, CONNECT_TO_SERVER1_BY_CLIENT1,
         CONNECT_TO_SERVER2_BY_CLIENT2, DISCONNECT_FROM_SERVER, CHECKSTATUS_CLIENT,
         PRINT_TO_SERVER1, PRINT_TO_SERVER2, READ_DATA_FROM_CLIENT1_BUFFER,
         READ_DATA_FROM_CLIENT1_BUFFER_TO_ARDUINO_LIB, READ_DATA_FROM_CLIENT2_BUFFER,
         READ_DATA_FROM_CLIENT2_BUFFER_TO_ARDUINO_LIB, CONNECT_TO_NETPIE,
         DISCONNECT_FROM_NETPIE, SETUP_TOKEN, INIT_MICROGEAR, SET_ALIAS_NAME, PUBLISH,
         SUBSCRIBE, UNSUBSCRIBE, CHAT, PULL_MESSAGE, WRITE_FEED

LEMMA WordFacts ==
  ASSUME NEW w \in KnownWord
  PROVE  /\ Sound(Command[w]) /\ w \notin {"CR", "LF"}
         /\ w \in Connect => Command[w].end = 4 /\ w \notin Unconditional
         /\ w \in Mode => w \notin Unconditional /\ w \notin Connect
         /\ w \in Unconditional => w # "AT+MGWF " \/ Command[w].end = 9
<1>1. Sound(Command[w])
  BY FormatOf, SoundNamed, Zenon DEF KnownWord
<1>2. w \notin {"CR", "LF"}
  BY Zenon DEF KnownWord
<1>3. w \in Connect => Command[w].end = 4
  <2>1. w \in Connect =>
          Command[w] \in {CONNECT_TO_SERVER1_BY_CLIENT1, CONNECT_TO_SERVER2_BY_CLIENT2}
    BY FormatOf, Zenon DEF Connect
  <2>2. CONNECT_TO_SERVER1_BY_CLIENT1.end = 4 /\ CONNECT_TO_SERVER2_BY_CLIENT2.end = 4
    BY DEF Arguments, CONNECT_TO_SERVER1_BY_CLIENT1, CONNECT_TO_SERVER2_BY_CLIENT2
  <2> QED BY <2>1, <2>2, Zenon
<1>4. /\ w \in Connect => w \notin Unconditional
      /\ w \in Mode => w \notin Unconditional /\ w \notin Connect
  BY Zenon DEF Mode, Connect, Unconditional
<1>5. w = "AT+MGWF " => Command[w].end = 9
  BY FormatFacts
<1> QED BY <1>1, <1>2, <1>3, <1>4, <1>5, Zenon

LEMMA LastTwo ==
  ASSUME NEW S, NEW s \in Seq(S), NEW t \in Seq(S), NEW b \in Nat, Len(s) = 1 + b, Len(t) = 2
  PROVE  /\ Len(s \o t) = b + 3
         /\ (s \o t)[b + 2] = t[1] /\ (s \o t)[b + 3] = t[2]
<1>1. /\ Len(s \o t) = Len(s) + Len(t)
      /\ \A i \in 1 .. Len(s) + Len(t) :
           (s \o t)[i] = IF i <= Len(s) THEN s[i] ELSE t[i - Len(s)]
  BY ConcatProperties
<1>2. /\ Len(s) + Len(t) = b + 3
      /\ b + 2 \in 1 .. Len(s) + Len(t) /\ b + 3 \in 1 .. Len(s) + Len(t)
      /\ ~(b + 2 <= Len(s)) /\ ~(b + 3 <= Len(s))
      /\ (b + 2) - Len(s) = 1 /\ (b + 3) - Len(s) = 2
  BY SMT
<1>3. (s \o t)[b + 2] = t[1] /\ (s \o t)[b + 3] = t[2]
  <2>1. \A i \in 1 .. Len(s) + Len(t) : ~(i <= Len(s)) => (s \o t)[i] = t[i - Len(s)]
    BY <1>1
  <2>2. ASSUME NEW i \in 1 .. Len(s) + Len(t), NEW k, ~(i <= Len(s)), i - Len(s) = k
        PROVE  (s \o t)[i] = t[k]
    BY <2>1, <2>2, Zenon
  <2> QED BY <1>2, <2>2, Zenon
<1> QED BY <1>1, <1>2, <1>3

LEMMA LineEnd ==
  ASSUME NEW l \in Line
  PROVE  /\ Len(l.body) \in Nat /\ Len(LineText(l)) = Len(l.body) + 3
         /\ LineText(l)[Len(l.body) + 2] = "CR" /\ LineText(l)[Len(l.body) + 3] = "LF"
<1>1. l.word \in Symbol /\ l.body \in Seq(Symbol)
  <2>1. l.word \in STRING /\ l.body \in Seq(STRING)
    BY LineAssumption
  <2> QED BY <2>1, SMT DEF Symbol
<1>2. <<l.word>> \in Seq(Symbol) /\ <<"CR", "LF">> \in Seq(Symbol)
  <2>1. "CR" \in Symbol /\ "LF" \in Symbol
    BY DEF Symbol
  <2> QED BY <1>1, <2>1, ShortSeq
<1>3. Len(l.body) \in Nat
  BY <1>1, LenProperties
<1>4. /\ <<l.word>> \o l.body \in Seq(Symbol)
      /\ Len(<<l.word>> \o l.body) = 1 + Len(l.body)
  BY <1>1, <1>2, ConcatProperties
<1>5. Len(<<"CR", "LF">>) = 2
  OBVIOUS
<1>6. LET s == <<l.word>> \o l.body
          t == <<"CR", "LF">> IN
      /\ Len(s \o t) = Len(l.body) + 3
      /\ (s \o t)[Len(l.body) + 2] = t[1] /\ (s \o t)[Len(l.body) + 3] = t[2]
  BY <1>2, <1>3, <1>4, <1>5, LastTwo
<1>7. <<"CR", "LF">>[1] = "CR" /\ <<"CR", "LF">>[2] = "LF"
  OBVIOUS
<1> QED BY <1>3, <1>6, <1>7, Zenon DEF LineText

(* The count of the separators never falls along a line, and all that are  *)
(* needed are in front of the last token.                                  *)
LEMMA CountGrows ==
  ASSUME NEW l, NEW i \in Nat, NEW k \in Nat, 1 <= i, i <= k
  PROVE  /\ Cardinality(SeparatorsUpTo(l, i)) \in Nat
         /\ Cardinality(SeparatorsUpTo(l, k)) \in Nat
         /\ Cardinality(SeparatorsUpTo(l, i)) <= Cardinality(SeparatorsUpTo(l, k))
<1>1. IsFiniteSet(SeparatorsUpTo(l, k))
  <2>1. IsFiniteSet(2 .. k)
    BY FS_Interval
  <2>2. SeparatorsUpTo(l, k) \in SUBSET (2 .. k)
    BY DEF SeparatorsUpTo
  <2> QED BY <2>1, <2>2, FS_Subset
<1>2. \A x \in 2 .. i : x \in 2 .. k
  BY SMT
<1>3. SeparatorsUpTo(l, i) \in SUBSET SeparatorsUpTo(l, k)
  BY <1>2 DEF SeparatorsUpTo
<1>4. IsFiniteSet(SeparatorsUpTo(l, i))
  BY <1>1, <1>3, FS_Subset
<1> QED BY <1>1, <1>3, <1>4, FS_Subset, FS_CardinalityType

LEMMA EnoughBeforeEnd ==
  ASSUME NEW l \in Line, l.word \in KnownWord
  PROVE  Cardinality(SeparatorsUpTo(l, Len(l.body) + 2)) >= Needed(l)
<1>1. PICK b \in Nat : b = Len(l.body)
  BY LineEnd
<1>2. Len(LineText(l)) = b + 3 /\ LineText(l)[b + 3] = "LF"
  BY <1>1, LineEnd
<1>3. b + 2 \in Nat /\ b + 2 >= 1 /\ b + 2 + 1 = b + 3
  BY SMT
<1>4. LineText(l)[b + 2 + 1] \notin Command[l.word].separators
  BY <1>2, <1>3, WordFacts, Zenon DEF Sound
<1>5. Cardinality(SeparatorsUpTo(l, b + 2 + 1)) = Cardinality(SeparatorsUpTo(l, b + 2))
  BY <1>3, <1>4, Counted, Zenon
<1>6. Formatted(l)
  BY FormatAssumption
<1>7. Cardinality(SeparatorsUpTo(l, b + 3)) >= Needed(l)
  BY <1>2, <1>6, Zenon DEF Formatted
<1> QED BY <1>1, <1>3, <1>5, <1>7, Zenon

(* The places of a text grow with the tokens that do not separate, until   *)
(* the separator that ends it; those of the next text begin behind it.     *)
Reached(l, c, i) == {p \in Places(l, c) : p <= i}

LEMMA PlaceOf ==
  ASSUME NEW l \in Line, NEW c \in Nat, NEW p \in Places(l, c)
  PROVE  /\ p \in Nat /\ p >= 2 /\ p <= Len(LineText(l))
         /\ LineText(l)[p] \notin Command[l.word].separators
         /\ Cardinality(SeparatorsUpTo(l, p)) = c - 1
<1>1. /\ p \in 2 .. Len(LineText(l))
      /\ LineText(l)[p] \notin Command[l.word].separators
      /\ Cardinality(SeparatorsUpTo(l, p)) = c - 1
  BY DEF Places
<1>2. Len(LineText(l)) \in Nat
  BY TextOf
<1> QED BY <1>1, <1>2, SMT

LEMMA ReachedBegins ==
  ASSUME NEW l \in Line, NEW c \in Nat
  PROVE  Reached(l, c, 1) = {}
<1>1. \A p \in Places(l, c) : ~(p <= 1)
  <2> TAKE p \in Places(l, c)
  <2>1. p \in Nat /\ p >= 2
    BY PlaceOf
  <2> QED BY <2>1, SMT
<1> QED BY <1>1 DEF Reached

LEMMA ReachedGrows ==
  ASSUME NEW l \in Line, NEW i \in Nat, i >= 1, i + 1 <= Len(LineText(l)),
         NEW c \in Nat, c = Cardinality(SeparatorsUpTo(l, i)),
         LineText(l)[i + 1] \notin Command[l.word].separators
  PROVE  Reached(l, c + 1, i + 1) = Reached(l, c + 1, i) \cup {i + 1}
<1>1. i + 1 \in Places(l, c + 1)
  <2>1. Cardinality(SeparatorsUpTo(l, i + 1)) = c
    BY Counted
  <2>2. i + 1 \in 2 .. Len(LineText(l)) /\ c = (c + 1) - 1
    <3>1. Len(LineText(l)) \in Nat
      BY TextOf
    <3> QED BY <3>1, SMT
  <2> QED BY <2>1, <2>2, Zenon DEF Places
<1>2. ASSUME NEW p \in Places(l, c + 1)
      PROVE  p <= i + 1 <=> p <= i \/ p = i + 1
  <2>1. p \in Nat
    BY PlaceOf
  <2> QED BY <2>1, SMT
<1>3. i + 1 <= i + 1
  BY SMT
<1> QED BY <1>1, <1>2, <1>3, Zenon DEF Reached

LEMMA ReachedEnds ==
  ASSUME NEW l \in Line, NEW i \in Nat, i >= 1,
         NEW c \in Nat, c = Cardinality(SeparatorsUpTo(l, i)),
         LineText(l)[i + 1] \in Command[l.word].separators
  PROVE  Reached(l, c + 1, i) = Places(l, c + 1) /\ Reached(l, c + 2, i + 1) = {}
<1>1. Cardinality(SeparatorsUpTo(l, i + 1)) = c + 1
  BY Counted
<1>2. ASSUME NEW p \in Places(l, c + 1), ~(p <= i) PROVE FALSE
  <2>1. p \in Nat /\ Cardinality(SeparatorsUpTo(l, p)) = (c + 1) - 1
    BY PlaceOf
  <2>2. 1 <= i + 1 /\ i + 1 <= p
    BY <1>2, <2>1, SMT
  <2>3. Cardinality(SeparatorsUpTo(l, i + 1)) <= Cardinality(SeparatorsUpTo(l, p))
    BY <2>1, <2>2, CountGrows
  <2> QED BY <1>1, <2>1, <2>3, SMT
<1>3. ASSUME NEW p \in Places(l, c + 2), p <= i + 1 PROVE FALSE
  <2>1. /\ p \in Nat /\ p >= 2 /\ Cardinality(SeparatorsUpTo(l, p)) = (c + 2) - 1
        /\ LineText(l)[p] \notin Command[l.word].separators
    BY PlaceOf
  <2>2. 1 <= p /\ p <= i
    <3>1. p # i + 1
      BY <2>1
    <3> QED BY <1>3, <2>1, <3>1, SMT
  <2>3. Cardinality(SeparatorsUpTo(l, p)) <= Cardinality(SeparatorsUpTo(l, i))
    BY <2>1, <2>2, CountGrows
  <2>4. Cardinality(SeparatorsUpTo(l, p)) = c + 1
    BY <2>1, SMT
  <2> QED BY <2>3, <2>4, SMT
<1> QED BY <1>2, <1>3, Zenon DEF Reached

(* The tokens at these places, written one behind the other.               *)
LEMMA SpellsNothing ==
  ASSUME NEW n, NEW s \in Seq(Piece)
  PROVE  Spells(s, n, {}) <=> s = << >>
<1>1. DOMAIN s = 1 .. Len(s) /\ Len(s) \in Nat
  BY LenProperties
<1>2. ASSUME s = << >> PROVE Spells(s, n, {})
  <2>1. \A k : k \notin DOMAIN << >>
    BY SMT
  <2>2. \A k : k \notin DOMAIN s
    BY <1>2, <2>1
  <2> QED BY <2>2, Zenon DEF Spells
<1>3. ASSUME Spells(s, n, {}) PROVE s = << >>
  <2>1. \A k : k \notin DOMAIN s
    BY <1>3, Zenon DEF Spells
  <2>2. Len(s) = 0
    <3>1. ~(1 \in 1 .. Len(s))
      BY <1>1, <2>1
    <3> QED BY <1>1, <3>1, SMT
  <2> QED BY <2>2, EmptySeq
<1> QED BY <1>2, <1>3

LEMMA SpellsMore ==
  ASSUME NEW n \in Nat, NEW i \in Nat, NEW s \in Seq(Piece), NEW P, \A p \in P : p \in Nat /\ p < i,
         Spells(s, n, P)
  PROVE  Spells(Append(s, <<n, i>>), n, P \cup {i})
<1> DEFINE m == Len(s)
<1>0. m \in Nat /\ DOMAIN s = 1 .. m
  BY LenProperties
<1>1. PICK t \in Seq(Piece) : t = Append(s, <<n, i>>)
  BY AppendProperties DEF Piece
<1>2. /\ Len(t) = m + 1 /\ \A k \in 1 .. m : t[k] = s[k]
      /\ t[m + 1] = <<n, i>>
  BY <1>1, AppendProperties DEF Piece
<1>3. DOMAIN t = 1 .. m + 1
  BY <1>2, LenProperties
<1>4. \A k : k \in 1 .. m + 1 <=> k \in 1 .. m \/ k = m + 1
  BY <1>0, SMT
<1> HIDE DEF m
<1>5. {t[k] : k \in DOMAIN t} = {<<n, p>> : p \in P \cup {i}}
  <2>1. {s[k] : k \in 1 .. m} = {<<n, p>> : p \in P}
    BY <1>0, Zenon DEF Spells
  <2>2. {t[k] : k \in 1 .. m} = {s[k] : k \in 1 .. m}
    BY <1>2, Zenon
  <2>3. {t[k] : k \in DOMAIN t} = {t[k] : k \in 1 .. m} \cup {<<n, i>>}
    BY <1>2, <1>3, <1>4, Zenon
  <2>4. {<<n, p>> : p \in P \cup {i}} = {<<n, p>> : p \in P} \cup {<<n, i>>}
    BY Zenon
  <2> QED BY <2>1, <2>2, <2>3, <2>4
<1>6. ASSUME NEW j \in DOMAIN t, NEW k \in DOMAIN t, j < k PROVE t[j][2] < t[k][2]
  <2>1. j \in 1 .. m
    BY <1>0, <1>3, <1>6, SMT
  <2>2. CASE k \in 1 .. m
    BY <1>0, <1>2, <1>6, <2>1, <2>2 DEF Spells
  <2>3. CASE k = m + 1
    <3>1. s[j] \in {<<n, p>> : p \in P}
      BY <1>0, <2>1, Zenon DEF Spells
    <3>2. PICK p \in P : s[j] = <<n, p>>
      BY <3>1
    <3>3. t[j][2] = p /\ t[k][2] = i
      BY <1>2, <2>1, <2>3, <3>2
    <3> QED BY <3>3
  <2> QED BY <1>3, <1>4, <2>2, <2>3
<1> QED BY <1>1, <1>5, <1>6, Zenon DEF Spells

-----------------------------------------------------------------------------
(* Tokens are received in the order in which they were typed.              *)
Precedes(a, b) == a[1] < b[1] \/ (a[1] = b[1] /\ a[2] < b[2])

Ordered ==
  /\ \A k \in 0 .. Len(xQueueUART) - 1 : Precedes(Waiting(k), Waiting(k + 1))
  /\ ~Precedes(<<Len(typed), position>>, Waiting(Len(xQueueUART)))

LEMMA PrecedesOn ==
  ASSUME NEW a \in Piece, NEW b \in Piece, NEW c \in Piece, ~Precedes(b, a), Precedes(b, c)
  PROVE  Precedes(a, c) /\ ~Precedes(c, a)
<1>1. /\ a[1] \in Nat /\ a[2] \in Nat /\ b[1] \in Nat /\ b[2] \in Nat
      /\ c[1] \in Nat /\ c[2] \in Nat
  BY DEF Piece
<1> QED BY <1>1, SMT DEF Precedes

LEMMA ArriveOrdered ==
  ASSUME TypeInv, Ordered, _uart0_rx_isr
  PROVE  Ordered'
<1>1. PICK n, i \in Nat :
        /\ Arrive(n, i) /\ n = Len(typed')
        /\ \/ UNCHANGED typed /\ i = position + 1 /\ n = Len(typed)
           \/ i = 1 /\ n = Len(typed) + 1
  BY IsrFacts, Zenon
<1>2. /\ position' = i /\ last' = last
      /\ xQueueUART' = Append(xQueueUART, <<n, i>>) \/ xQueueUART' = xQueueUART
  BY <1>1 DEF Arrive
<1>3. PICK e \in Piece : e = <<Len(typed), position>>
  BY LenProperties DEF TypeInv, HostOK, Piece
<1>4. PICK f \in Piece : f = <<n, i>>
  BY DEF Piece
<1>5. Precedes(e, f)
  <2>1. Len(typed) \in Nat /\ position \in Nat
    BY LenProperties DEF TypeInv, HostOK
  <2>2. Len(typed) < n \/ (Len(typed) = n /\ position < i)
    BY <1>1, <2>1, SMT
  <2> QED BY <1>3, <1>4, <2>2 DEF Precedes
<1>6. PICK m \in Nat : m = Len(xQueueUART)
  BY LenProperties DEF TypeInv, LineOK
<1>7. \A k \in 0 .. m : Waiting(k)' = Waiting(k) /\ Waiting(k) \in Piece
  <2>1. \A k \in 1 .. m : xQueueUART'[k] = xQueueUART[k]
    <3>1. xQueueUART \in Seq(Piece)
      BY DEF TypeInv, LineOK
    <3>2. \A k \in 1 .. m : Append(xQueueUART, <<n, i>>)[k] = xQueueUART[k]
      BY <1>4, <1>6, <3>1, AppendProperties
    <3> QED BY <1>2, <3>2
  <2>2. \A k \in 0 .. m : k = 0 \/ k \in 1 .. m
    BY SMT
  <2>3. \A k \in 0 .. m : Waiting(k) \in Piece
    BY <1>6, WaitingSent, NoneNotSent DEF Sent
  <2> QED BY <1>2, <2>1, <2>2, <2>3 DEF Waiting
<1>8. PICK a \in Piece : a = Waiting(m) /\ a = Waiting(m)'
  <2>1. m \in 0 .. m
    BY SMT
  <2> QED BY <1>7, <2>1
<1>9. ~Precedes(e, a)
  BY <1>3, <1>6, <1>8 DEF Ordered
<1>10. Precedes(a, f) /\ ~Precedes(f, a)
  BY <1>5, <1>9, PrecedesOn
<1>11. \A k \in 0 .. m - 1 : Precedes(Waiting(k), Waiting(k + 1))'
  <2> TAKE k \in 0 .. m - 1
  <2>1. k \in 0 .. m /\ k + 1 \in 0 .. m
    BY SMT
  <2>2. Waiting(k)' = Waiting(k) /\ Waiting(k + 1)' = Waiting(k + 1)
    BY <1>7, <2>1
  <2>3. Precedes(Waiting(k), Waiting(k + 1))
    BY <1>6 DEF Ordered
  <2> QED BY <2>2, <2>3 DEF Precedes
<1>12. CASE xQueueUART' = Append(xQueueUART, <<n, i>>)
  <2>1. Len(xQueueUART') = m + 1 /\ Waiting(m + 1)' = f
    BY <1>4, <1>6, <1>12, AppendProperties, SMT DEF TypeInv, LineOK, Piece, Waiting
  <2>2. Precedes(Waiting(m), Waiting(m + 1))'
    BY <1>8, <1>10, <2>1 DEF Precedes
  <2>3. \A k \in 0 .. m : k \in 0 .. m - 1 \/ k = m
    BY SMT
  <2>4. \A k \in 0 .. m : Precedes(Waiting(k), Waiting(k + 1))'
    BY <1>11, <2>2, <2>3
  <2>5. Len(xQueueUART') - 1 = m
    BY <2>1, SMT
  <2>6. ~Precedes(f, f)
    BY <1>4, SMT DEF Precedes
  <2>7. f = <<Len(typed'), position'>>
    BY <1>1, <1>2, <1>4
  <2> QED BY <2>1, <2>4, <2>5, <2>6, <2>7 DEF Ordered, Precedes
<1>13. CASE xQueueUART' = xQueueUART
  <2>1. f = <<Len(typed'), position'>> /\ Len(xQueueUART') = m
    BY <1>1, <1>2, <1>4, <1>6, <1>13
  <2>2. ~Precedes(f, a)
    BY <1>10
  <2> QED BY <1>8, <1>11, <2>1, <2>2 DEF Ordered, Precedes
<1> QED BY <1>2, <1>12, <1>13

LEMMA ReceiveOrdered ==
  ASSUME TypeInv, Ordered, NEW token, Receive(token)
  PROVE  Ordered' /\ Precedes(last, token)
<1>1. /\ Len(xQueueUART) \in Nat /\ Len(xQueueUART) >= 1
      /\ token = xQueueUART[1] /\ last' = token
      /\ Len(xQueueUART') = Len(xQueueUART) - 1
      /\ \A k \in 1 .. Len(xQueueUART') : xQueueUART'[k] = xQueueUART[k + 1]
      /\ UNCHANGED <<typed, position>>
  BY Received
<1>2. PICK m \in Nat : m = Len(xQueueUART')
  BY <1>1, SMT
<1>3. Len(xQueueUART) = m + 1
  BY <1>1, <1>2, SMT
<1>4. \A k \in 0 .. m : Waiting(k)' = Waiting(k + 1)
  <2>1. \A k \in 0 .. m : k + 1 # 0 /\ (k = 0 \/ k \in 1 .. m)
    BY SMT
  <2> QED BY <1>1, <1>2, <2>1, SMT DEF Waiting
<1>5. ASSUME NEW k \in 0 .. m - 1 PROVE Precedes(Waiting(k), Waiting(k + 1))'
  <2>1. k \in 0 .. m /\ k + 1 \in 0 .. m /\ k + 1 \in 0 .. Len(xQueueUART) - 1
    BY <1>3, SMT
  <2>2. Precedes(Waiting(k + 1), Waiting(k + 1 + 1))
    BY <2>1 DEF Ordered
  <2>3. Waiting(k)' = Waiting(k + 1) /\ Waiting(k + 1)' = Waiting(k + 1 + 1)
    BY <1>4, <2>1
  <2> QED BY <2>2, <2>3 DEF Precedes
<1>6. ~Precedes(<<Len(typed), position>>, Waiting(m))'
  <2>1. Waiting(m)' = Waiting(m + 1)
    BY <1>4, SMT
  <2>2. ~Precedes(<<Len(typed), position>>, Waiting(m + 1))
    BY <1>3 DEF Ordered
  <2> QED BY <1>1, <2>1, <2>2 DEF Precedes
<1>7. Precedes(last, token)
  <2>1. 0 \in 0 .. Len(xQueueUART) - 1
    BY <1>1, SMT
  <2>2. Waiting(0) = last /\ Waiting(0 + 1) = token
    BY <1>1, SMT DEF Waiting
  <2> QED BY <2>1, <2>2 DEF Ordered
<1> QED BY <1>2, <1>5, <1>6, <1>7 DEF Ordered, Precedes

-----------------------------------------------------------------------------
(* What was executed follows the lines, and nothing is ahead of the token  *)
(* received last; a clean line has begun and lost no token.                *)
InOrder ==
  /\ \A j, k \in 1 .. Len(executed) : j < k => executed[j].line <= executed[k].line
  /\ \A j \in 1 .. Len(executed) :
       /\ executed[j].line <= last[1]
       /\ handler # None => executed[j].line <= handler[1]
  /\ handler # None => handler[1] <= last[1]
  /\ \A n \in clean : n <= last[1] /\ Whole(n)

(* Nothing is left of a command outside its loop, and nothing of a line    *)
(* when the queue was empty behind it.                                     *)
Idle ==
  /\ handler = None => ~break_loop
  /\ drained => handler = None /\ message_index = 0

(* In a clean delimited line read_sr waits for the separator that ends the *)
(* loop, has it and receives the one more token, or waits for the next.    *)
Ready ==
  LET n == last[1] IN
  n \in clean /\ Delimited(n) =>
    \/ handler # None /\ handler[1] = n /\ ~break_loop /\ ~Beyond
    \/ /\ handler # None /\ break_loop
       /\ last[2] > Len(typed[n].body) /\ last[2] <= CrPosition(n)
    \/ handler = None /\ message_index = 0 /\ last[2] > Len(typed[n].body)

(* A clean line has run and read_sr is done with it, or it is in its loop: *)
(* with the texts up to the last separator copied and the next one in the  *)
(* making, or with all of them and only the end of the loop to come.       *)
Due(n) == typed[n].word \in KnownWord /\ Filled(typed[n])
RanAt(n, i) ==
  /\ executed[i].line = n /\ AsTyped(executed[i].args, n)
  /\ \A j \in 1 .. Len(executed) :
       (executed[j].line < n <=> j < i) /\ (executed[j].line > n <=> j > i)
HasRun(n) == \E i \in 1 .. Len(executed) : RanAt(n, i)
Passed(n) ==
  handler # None =>
    handler[1] > n \/ (handler[1] = n /\ Word(handler) \notin Unconditional /\ Beyond)

Collected(n) ==
  /\ \A j \in DOMAIN args :
       IF Format.copy[j] <= param
       THEN Spells(args[j], n, Places(typed[n], Format.copy[j])) ELSE args[j] = << >>
  /\ Spells(Content, n, Reached(typed[n], param + 1, last[2]))
  /\ message_index # 0 => message_index = Len(message_sr)
Pending(n) ==
  /\ handler # None /\ handler[1] = n
  /\ \A j \in 1 .. Len(executed) : executed[j].line # n
  /\ \/ ~Beyond /\ ~break_loop /\ Collected(n)
     \/ Beyond /\ Word(handler) \in Unconditional /\ AsTyped(args, n)

Running == \A n \in clean : Due(n) => (HasRun(n) /\ Passed(n)) \/ Pending(n)

CleanInv == ParserInv /\ Ordered /\ InOrder /\ Idle /\ Ready /\ Running

(* The numbers of what was executed and received.                          *)
LEMMA Lines ==
  ASSUME TypeInv
  PROVE  /\ last \in Piece /\ last[1] \in Nat /\ last[2] \in Nat
         /\ \A j \in 1 .. Len(executed) : executed[j].line \in Nat
         /\ Len(executed) \in Nat /\ DOMAIN executed = 1 .. Len(executed)
         /\ \A n \in clean : n \in Nat /\ n >= 1 /\ n \in 1 .. Len(typed) /\ typed[n] \in Line
<1>1. last \in Piece /\ last[1] \in Nat /\ last[2] \in Nat
  BY NoneNotSent DEF TypeInv, LineOK, Sent, Piece
<1>2. executed \in Seq([line : Nat, args : Seq(Seq(Piece))])
  BY DEF TypeInv, ParserOK
<1>3. \A j \in 1 .. Len(executed) : executed[j].line \in Nat
  <2> TAKE j \in 1 .. Len(executed)
  <2>1. executed[j] \in [line : Nat, args : Seq(Seq(Piece))]
    BY <1>2, ElementOfSeq
  <2> QED BY <2>1
<1>4. \A n \in clean : n \in Nat /\ n >= 1 /\ n \in 1 .. Len(typed) /\ typed[n] \in Line
  <2> TAKE n \in clean
  <2>1. n \in 1 .. Len(typed) /\ typed \in Seq(Line)
    BY DEF TypeInv, LineOK, HostOK
  <2>2. n \in Nat /\ n >= 1
    BY <2>1, SMT
  <2> QED BY <2>1, <2>2, ElementOfSeq
<1> QED BY <1>1, <1>2, <1>3, <1>4, LenProperties

LEMMA LastIsSent ==
  ASSUME TypeInv, last[1] # 0
  PROVE  last \in Sent /\ last # None /\ last[2] >= 1
<1>1. last # None
  BY DEF None
<1>2. last \in Sent
  BY <1>1 DEF TypeInv, LineOK
<1>3. last[2] \in 1 .. Len(Text(last[1])) /\ Len(Text(last[1])) \in Nat
  BY <1>2, SentText
<1> QED BY <1>1, <1>2, <1>3, SMT

(* A line becomes clean with its first token, when read_sr is ready for it *)
(* and nothing of it was executed.                                         *)
LEMMA NewlyClean ==
  ASSUME CleanInv, NEW token, Receive(token), NEW n \in clean', n \notin clean
  PROVE  /\ token[1] = n /\ token[2] = 1 /\ handler = None /\ message_index = 0
         /\ Whole(n) /\ last[1] < n /\ n \in Nat
         /\ \A j \in 1 .. Len(executed) : executed[j].line < n
<1>0. TypeInv /\ Unbroken /\ Tracked /\ Ordered /\ InOrder /\ Idle /\ Ready
  BY DEF CleanInv, ParserInv
<1>1. /\ token[1] = n /\ token[2] = 1 /\ Whole(n)
      /\ drained \/ (n - 1 \in clean /\ Delimited(n - 1))
  BY DEF Receive, Note
<1>2. Precedes(last, token) /\ Succeeds(last, token) /\ token \in Sent
  BY <1>0, ReceiveOrdered, ReceiveUnbroken, Received
<1>3. n \in Nat /\ n >= 1 /\ n \in 1 .. Len(typed)
  <2>1. n \in 1 .. Len(typed)
    BY <1>1, <1>2 DEF Sent
  <2> QED BY <2>1, SMT
<1>4. last[1] \in Nat /\ last[2] \in Nat
  BY <1>0, Lines
<1>5. last[1] < n
  <2>1. CASE last[1] = 0
    BY <1>3, <2>1, SMT
  <2>2. CASE last[1] # 0
    <3>1. last[2] >= 1
      BY <1>0, <2>2, LastIsSent
    <3> QED BY <1>1, <1>2, <1>4, <3>1, SMT DEF Precedes
  <2> QED BY <2>1, <2>2
<1>6. \A j \in 1 .. Len(executed) : executed[j].line < n
  <2> TAKE j \in 1 .. Len(executed)
  <2>1. executed[j].line \in Nat /\ executed[j].line <= last[1]
    BY <1>0, Lines DEF InOrder
  <2> QED BY <1>3, <1>4, <1>5, <2>1, SMT
<1>7. handler = None /\ message_index = 0
  <2>1. CASE drained
    BY <1>0, <2>1 DEF Idle
  <2>2. CASE n - 1 \in clean /\ Delimited(n - 1)
    <3>1. PICK m \in clean : m = n - 1
      BY <2>2
    <3>2. m \in Nat /\ m >= 1 /\ m <= last[1] /\ Whole(m) /\ typed[m] \in Line
      BY <1>0, Lines DEF InOrder
    <3>3. last[1] = m /\ last[1] # 0
      BY <1>3, <1>4, <1>5, <3>1, <3>2, SMT
    <3>4. PICK l \in Line : l = typed[m] /\ l.word \in KnownWord
      BY <2>2, <3>1, <3>2 DEF Delimited
    <3>5. Len(l.body) \in Nat /\ Len(LineText(l)) = Len(l.body) + 3
      BY LineEnd
    <3>6. last \in Sent /\ last # None
      BY <1>0, <3>3, LastIsSent
    <3>7. last[2] = Len(l.body) + 3
      <4>1. last[2] \in 1 .. Len(LineText(l))
        BY <1>0, <3>3, <3>4, <3>6, SentText DEF Text
      <4>2. ~(last[2] < Len(LineText(l)))
        <5> SUFFICES ASSUME last[2] < Len(LineText(l)) PROVE FALSE
          OBVIOUS
        <5>1. token = <<last[1], last[2] + 1>>
          BY <1>2, <3>2, <3>3, <3>4, <3>6 DEF Succeeds, Text
        <5>2. n = last[1]
          BY <1>1, <5>1
        <5> QED BY <1>3, <1>5, <5>2, SMT
      <4> QED BY <3>5, <4>1, <4>2, SMT
    <3>8. ASSUME handler # None, handler[1] = m, ~Beyond PROVE FALSE
      <4>1. InLine
        BY <1>0, <3>2, <3>8 DEF Tracked
      <4>2. param = Cardinality(SeparatorsUpTo(l, Len(l.body) + 3))
        BY <3>4, <3>7, <3>8, <4>1 DEF InLine
      <4>3. param >= Needed(l)
        <5>1. Formatted(l)
          BY FormatAssumption
        <5> QED BY <3>4, <3>5, <4>2, <5>1, Zenon DEF Formatted
      <4> QED BY <3>4, <3>8, <4>3 DEF Beyond
    <3>9. ~(last[2] <= CrPosition(m))
      <4>1. CrPosition(m) = Len(l.body) + 2
        BY <3>4 DEF CrPosition
      <4> QED BY <3>5, <3>7, <4>1, SMT
    <3> QED BY <1>0, <2>2, <3>1, <3>3, <3>8, <3>9 DEF Ready
  <2> QED BY <1>1, <2>1, <2>2
<1> QED BY <1>1, <1>3, <1>5, <1>6, <1>7

(* The order of what was executed, when a token or nothing was received.   *)
LEMMA ReceivedOn ==
  ASSUME CleanInv, NEW token, Receive(token)
  PROVE  /\ last' = token /\ token \in Sent /\ token \in Piece /\ token[1] \in Nat /\ token[2] \in Nat
         /\ last[1] <= token[1] /\ UNCHANGED <<typed, dropped>>
         /\ token[2] = 1 => last[1] < token[1]
         /\ \A n \in clean' : n <= token[1] /\ Whole(n)
<1>0. TypeInv /\ Ordered /\ InOrder
  BY DEF CleanInv, ParserInv
<1>1. last' = token /\ token \in Sent /\ token \in Piece /\ UNCHANGED <<typed, dropped>>
  BY <1>0, Received
<1>2. token[1] \in Nat /\ token[2] \in Nat /\ token[1] >= 1
  <2>1. token[1] \in 1 .. Len(typed)
    BY <1>1 DEF Sent
  <2>2. token[1] \in Nat /\ token[2] \in Nat
    BY <1>1 DEF Piece
  <2> QED BY <2>1, <2>2, SMT
<1>3. last[1] \in Nat /\ last[2] \in Nat /\ (\A n \in clean : n \in Nat)
  BY <1>0, Lines
<1>4. Precedes(last, token)
  BY <1>0, ReceiveOrdered
<1>5. last[1] <= token[1]
  BY <1>2, <1>3, <1>4, SMT DEF Precedes
<1>6. token[2] = 1 => last[1] < token[1]
  <2>1. last[1] = 0 \/ last[2] >= 1
    BY <1>0, LastIsSent
  <2> QED BY <1>2, <1>3, <1>4, <2>1, SMT DEF Precedes
<1>7. \A n \in clean' : n <= token[1] /\ Whole(n)
  <2> TAKE n \in clean'
  <2>1. CASE n \in clean
    <3>1. n <= last[1] /\ Whole(n) /\ n \in Nat
      BY <1>0, <1>3, <2>1 DEF InOrder
    <3> QED BY <1>2, <1>3, <1>5, <3>1, SMT
  <2>2. CASE n \notin clean
    <3>1. token[1] = n /\ Whole(n)
      BY <2>2, NewlyClean
    <3> QED BY <1>2, <3>1, SMT
  <2> QED BY <2>1, <2>2
<1> QED BY <1>1, <1>2, <1>5, <1>6, <1>7

LEMMA OrderKept ==
  ASSUME TypeInv, InOrder, UNCHANGED executed, last'[1] \in Nat, last[1] <= last'[1],
         handler' = handler \/ handler' = None \/ (handler = None /\ handler'[1] = last'[1]),
         \A n \in clean' : n <= last'[1] /\ Whole(n)'
  PROVE  InOrder'
<1>1. /\ last[1] \in Nat /\ Len(executed) \in Nat
      /\ \A j \in 1 .. Len(executed) : executed[j].line \in Nat
  BY Lines
<1>2. \A j \in 1 .. Len(executed) : executed[j].line <= last'[1]
  <2> TAKE j \in 1 .. Len(executed)
  <2>1. executed[j].line \in Nat /\ executed[j].line <= last[1]
    BY <1>1 DEF InOrder
  <2> QED BY <1>1, <2>1, SMT
<1>3. handler' # None =>
        handler'[1] <= last'[1] /\ \A j \in 1 .. Len(executed) : executed[j].line <= handler'[1]
  <2>1. CASE handler' = None
    BY <2>1
  <2>2. CASE handler' = handler /\ handler # None
    <3>1. handler[1] \in Nat /\ handler[1] <= last[1]
      BY <2>2, InLoop DEF InOrder
    <3>2. handler[1] <= last'[1]
      BY <1>1, <3>1, SMT
    <3> QED BY <2>2, <3>2 DEF InOrder
  <2>3. CASE handler'[1] = last'[1]
    <3>1. last'[1] <= last'[1]
      BY SMT
    <3> QED BY <1>2, <2>3, <3>1
  <2> QED BY <2>1, <2>2, <2>3
<1> QED BY <1>1, <1>2, <1>3 DEF InOrder

LEMMA OrderRun ==
  ASSUME TypeInv, InOrder, last'[1] \in Nat, last[1] <= last'[1],
         NEW word \in Piece, NEW arguments \in Seq(Seq(Piece)), Run(word, arguments),
         word[1] <= last'[1], \A j \in 1 .. Len(executed) : executed[j].line <= word[1],
         handler' = None \/ handler'[1] = word[1],
         \A n \in clean' : n <= last'[1] /\ Whole(n)'
  PROVE  InOrder'
<1>1. /\ Len(executed) \in Nat /\ Len(executed') = Len(executed) + 1
      /\ \A k \in 1 .. Len(executed) : executed'[k] = executed[k]
      /\ executed'[Len(executed) + 1] = [line |-> word[1], args |-> arguments]
  BY Recorded
<1>2. PICK m \in Nat : m = Len(executed)
  BY <1>1
<1>3. PICK w \in Nat : w = word[1]
  BY DEF Piece
<1>4. /\ \A k \in 1 .. m : executed'[k] = executed[k] /\ executed[k].line \in Nat
                           /\ executed[k].line <= w
      /\ executed'[m + 1].line = w
  BY <1>1, <1>2, <1>3, Lines
<1>5. \A k \in 1 .. m + 1 : k \in 1 .. m \/ k = m + 1
  BY SMT
<1>6. \A k \in 1 .. m + 1 : executed'[k].line \in Nat /\ executed'[k].line <= w
  <2> TAKE k \in 1 .. m + 1
  <2>1. CASE k \in 1 .. m
    BY <1>4, <2>1
  <2>2. CASE k = m + 1
    BY <1>4, <2>2, SMT
  <2> QED BY <1>5, <2>1, <2>2
<1>7. ASSUME NEW j \in 1 .. m + 1, NEW k \in 1 .. m + 1, j < k
      PROVE  executed'[j].line <= executed'[k].line
  <2>1. j \in 1 .. m
    BY <1>7, SMT
  <2>2. CASE k \in 1 .. m
    BY <1>2, <1>4, <1>7, <2>1, <2>2 DEF InOrder
  <2>3. CASE k = m + 1
    BY <1>4, <2>1, <2>3
  <2> QED BY <1>5, <2>2, <2>3
<1>8. \A k \in 1 .. m + 1 : executed'[k].line <= last'[1]
  <2> TAKE k \in 1 .. m + 1
  <2>1. w <= last'[1] /\ executed'[k].line \in Nat /\ executed'[k].line <= w
    BY <1>3, <1>6
  <2> QED BY <2>1, SMT
<1>9. handler' # None => handler'[1] = w
  BY <1>3
<1> QED BY <1>1, <1>2, <1>3, <1>6, <1>7, <1>8, <1>9 DEF InOrder

(* The order along every action of read_sr that receives.                  *)
LEMMA InOrderReceived ==
  ASSUME CleanInv, NEW token,
         \/ IgnoreLineEnd(token) \/ Accumulate(token)
         \/ RunAtOnce(token) \/ BeginArguments(token)
         \/ CollectText(token) \/ Separator(token) \/ LeaveAfter(token)
  PROVE  InOrder'
<1>0. TypeInv /\ InOrder
  BY DEF CleanInv, ParserInv
<1>1. Receive(token)
  BY DEF IgnoreLineEnd, Accumulate, RunAtOnce, BeginArguments, CollectText,
         Separator, LeaveAfter
<1>2. /\ last'[1] = token[1] /\ last'[1] \in Nat /\ last[1] <= last'[1] /\ token \in Piece
      /\ \A n \in clean' : n <= last'[1] /\ Whole(n)'
  BY <1>1, ReceivedOn DEF Whole
<1>3. /\ last[1] \in Nat
      /\ \A j \in 1 .. Len(executed) : executed[j].line \in Nat /\ executed[j].line <= last[1]
  BY <1>0, Lines DEF InOrder
<1>4. CASE /\ UNCHANGED executed
           /\ handler' = handler \/ handler' = None \/ (handler = None /\ handler' = token)
  BY <1>0, <1>2, <1>4, OrderKept
<1>5. CASE Run(token, << >>) /\ handler' = None
  <2>1. << >> \in Seq(Seq(Piece))
    OBVIOUS
  <2>2. \A j \in 1 .. Len(executed) : executed[j].line <= token[1]
    <3> TAKE j \in 1 .. Len(executed)
    <3>1. executed[j].line \in Nat /\ executed[j].line <= last[1]
      BY <1>3
    <3> QED BY <1>2, <1>3, <3>1, SMT
  <2>3. token[1] <= last'[1]
    BY <1>2, SMT
  <2> QED BY <1>0, <1>2, <1>5, <2>1, <2>2, <2>3, OrderRun
<1>6. ASSUME NEW a \in Seq(Seq(Piece)), handler # None, Run(handler, a),
             handler' = handler \/ handler' = None
      PROVE  InOrder'
  <2>1. /\ handler \in Piece /\ handler[1] \in Nat /\ handler[1] <= last[1]
        /\ \A j \in 1 .. Len(executed) : executed[j].line <= handler[1]
    BY <1>0, <1>6, InLoop DEF InOrder
  <2>2. handler[1] <= last'[1]
    BY <1>2, <1>3, <2>1, SMT
  <2> QED BY <1>0, <1>2, <1>6, <2>1, <2>2, OrderRun
<1>7. CASE IgnoreLineEnd(token) \/ Accumulate(token) \/ BeginArguments(token) \/ CollectText(token)
  BY <1>4, <1>7 DEF IgnoreLineEnd, Accumulate, BeginArguments, CollectText, parser
<1>8. CASE RunAtOnce(token)
  BY <1>5, <1>8 DEF RunAtOnce
<1>9. CASE Separator(token)
  <2>1. handler # None /\ handler' = handler /\ args' = Copied(param + 1)
        /\ (UNCHANGED executed \/ Run(handler, args'))
    BY <1>9 DEF Separator
  <2>2. PICK a \in Seq(Seq(Piece)) : a = args'
    BY <1>0, <2>1, CopiedArguments
  <2> QED BY <1>4, <1>6, <2>1, <2>2
<1>10. CASE LeaveAfter(token)
  <2>1. handler # None /\ handler' = None /\ (UNCHANGED executed \/ Run(handler, args))
    BY <1>10 DEF LeaveAfter, Leave
  <2>2. args \in Seq(Seq(Piece))
    BY <1>0 DEF TypeInv, ParserOK
  <2> QED BY <1>4, <1>6, <2>1, <2>2
<1> QED BY <1>7, <1>8, <1>9, <1>10

LEMMA InOrderNothing ==
  ASSUME CleanInv, ReceiveNothing, Pause \/ LeaveEmpty
  PROVE  InOrder'
<1>0. TypeInv /\ InOrder
  BY DEF CleanInv, ParserInv
<1>1. UNCHANGED <<dropped, last>> /\ clean' \subseteq clean
  BY <1>0, NothingReceived DEF ReceiveNothing, NoteEmpty
<1>2. /\ last[1] \in Nat /\ last'[1] = last[1] /\ last[1] <= last'[1]
      /\ \A n \in clean' : n <= last'[1] /\ Whole(n)'
  <2>1. last[1] \in Nat
    BY <1>0, Lines
  <2>2. last[1] <= last[1]
    BY <2>1, SMT
  <2> QED BY <1>0, <1>1, <2>1, <2>2 DEF InOrder, Whole
<1>3. handler' = None /\ (UNCHANGED executed \/ (handler # None /\ Run(handler, args)))
  BY DEF Pause, LeaveEmpty, Leave
<1>4. CASE UNCHANGED executed
  BY <1>0, <1>2, <1>3, <1>4, OrderKept
<1>5. CASE handler # None /\ Run(handler, args)
  <2>1. /\ handler \in Piece /\ handler[1] <= last'[1] /\ args \in Seq(Seq(Piece))
        /\ \A j \in 1 .. Len(executed) : executed[j].line <= handler[1]
    BY <1>0, <1>2, <1>5, InLoop DEF InOrder, TypeInv, ParserOK
  <2> QED BY <1>0, <1>2, <1>3, <1>5, <2>1, OrderRun
<1> QED BY <1>3, <1>4, <1>5

(* Between two commands, and behind an empty queue.                        *)
LEMMA StepIdle ==
  ASSUME CleanInv, read_sr
  PROVE  Idle'
<1>0. TypeInv /\ Idle
  BY DEF CleanInv, ParserInv
<1>1. ASSUME NEW token, Receive(token), drained', Found(token) PROVE FALSE
  <2>1. Kind(token) \in {"CR", "LF"} /\ token[2] = 1 /\ Word(token) \in KnownWord
    BY <1>1 DEF Receive, Note, Found
  <2>2. token[1] \in 1 .. Len(typed) /\ typed \in Seq(Line)
    BY <1>0, <1>1, Received DEF Sent, TypeInv, HostOK
  <2>3. Kind(token) = Word(token)
    BY <2>1, <2>2, TextAt DEF Kind, Word
  <2> QED BY <2>1, <2>3, WordFacts
<1>2. ASSUME NEW token, Receive(token), drained'
      PROVE  drained /\ Kind(token) \in {"CR", "LF"} /\ handler = None /\ message_index = 0
  BY <1>0, <1>2, Zenon DEF Receive, Note, Idle
<1>3. ASSUME NEW token, IgnoreLineEnd(token) PROVE Idle'
  BY <1>0, <1>2, <1>3, Zenon DEF IgnoreLineEnd, Idle, parser
<1>4. ASSUME NEW token, Accumulate(token) PROVE Idle'
  BY <1>0, <1>2, <1>4, Zenon DEF Accumulate, Idle
<1>5. ASSUME NEW token, RunAtOnce(token) \/ BeginArguments(token) PROVE Idle'
  <2>1. Receive(token) /\ Found(token) /\ handler = None /\ UNCHANGED break_loop
    BY <1>5 DEF RunAtOnce, BeginArguments
  <2>2. ~drained'
    BY <1>1, <2>1
  <2> QED BY <1>0, <2>1, <2>2, Zenon DEF Idle
<1>6. ASSUME NEW token, CollectText(token) \/ Separator(token) PROVE Idle'
  <2>1. Receive(token) /\ handler # None /\ UNCHANGED handler
    BY <1>6 DEF CollectText, Separator
  <2>2. ~drained'
    BY <1>2, <2>1
  <2> QED BY <2>1, <2>2 DEF Idle
<1>7. ASSUME Leave PROVE Idle'
  BY <1>7 DEF Leave, Idle
<1>8. CASE Pause
  BY <1>0, <1>8, Zenon DEF Pause, Idle
<1> QED BY <1>3, <1>4, <1>5, <1>6, <1>7, <1>8 DEF read_sr, LeaveAfter, LeaveEmpty

-----------------------------------------------------------------------------
(* The next token of a clean line that has begun.                          *)
LEMMA SameLine ==
  ASSUME CleanInv, NEW token, Receive(token), token[1] \in clean
  PROVE  /\ last[1] = token[1] /\ last[2] \in Nat /\ last[2] >= 1
         /\ token = <<token[1], last[2] + 1>> /\ token[2] = last[2] + 1
         /\ last[2] + 1 <= Len(LineText(typed[token[1]]))
         /\ Kind(token) = LineText(typed[token[1]])[last[2] + 1]
<1>0. TypeInv /\ Unbroken /\ Ordered /\ InOrder
  BY DEF CleanInv, ParserInv
<1>1. PICK n \in clean : n = token[1]
  OBVIOUS
<1>2. n \in Nat /\ n >= 1 /\ n <= last[1] /\ Whole(n) /\ typed[n] \in Line
      /\ last[1] \in Nat /\ last[2] \in Nat
  BY <1>0, Lines DEF InOrder
<1>3. last[1] <= token[1] /\ token \in Sent
  BY ReceivedOn
<1>4. last[1] = n /\ last[1] # 0
  BY <1>1, <1>2, <1>3, SMT
<1>5. last \in Sent /\ last # None /\ last[2] >= 1
  BY <1>0, <1>4, LastIsSent
<1>6. last[2] <= Len(LineText(typed[n])) /\ token[2] <= Len(LineText(typed[n]))
      /\ Len(LineText(typed[n])) \in Nat /\ token[2] \in Nat
  <2>1. last[2] \in 1 .. Len(Text(n)) /\ Len(Text(n)) \in Nat
    BY <1>0, <1>4, <1>5, SentText
  <2>2. token[2] \in 1 .. Len(Text(n)) /\ token[2] \in Nat
    BY <1>0, <1>1, <1>3, SentText
  <2> QED BY <2>1, <2>2, SMT DEF Text
<1>7. Precedes(last, token) /\ Succeeds(last, token)
  BY <1>0, ReceiveOrdered, ReceiveUnbroken
<1>8. last[2] < Len(LineText(typed[n]))
  <2>1. last[2] < token[2]
    BY <1>1, <1>4, <1>2, <1>7, SMT DEF Precedes
  <2> QED BY <1>2, <1>6, <2>1, SMT
<1>9. token = <<n, last[2] + 1>>
  BY <1>2, <1>4, <1>5, <1>7, <1>8 DEF Succeeds, Text
<1>10. token[2] = last[2] + 1 /\ Kind(token) = LineText(typed[n])[last[2] + 1]
  BY <1>9, Zenon DEF Kind, Text
<1>11. last[2] + 1 <= Len(LineText(typed[n]))
  BY <1>2, <1>6, <1>8, SMT
<1> QED BY <1>1, <1>2, <1>4, <1>5, <1>9, <1>10, <1>11

(* The first token of a clean line is the word of a command, or of none.   *)
LEMMA FirstToken ==
  ASSUME CleanInv, NEW token, Receive(token), token[1] \in clean', token[1] \notin clean
  PROVE  /\ token[2] = 1 /\ handler = None /\ message_index = 0 /\ Whole(token[1])
         /\ \A j \in 1 .. Len(executed) : executed[j].line < token[1]
         /\ Word(token) \in KnownWord => Found(token) /\ Kind(token) \notin {"CR", "LF"}
<1>0. TypeInv
  BY DEF CleanInv, ParserInv
<1>1. /\ token[2] = 1 /\ handler = None /\ message_index = 0 /\ Whole(token[1])
      /\ \A j \in 1 .. Len(executed) : executed[j].line < token[1]
  BY NewlyClean
<1>2. Kind(token) = Word(token)
  <2>1. token[1] \in 1 .. Len(typed) /\ typed \in Seq(Line)
    BY <1>0, Received DEF Sent, TypeInv, HostOK
  <2> QED BY <1>1, <2>1, TextAt DEF Kind, Word
<1> QED BY <1>1, <1>2, WordFacts DEF Found

(* A separator in the middle of a line: its count, and whether it is the   *)
(* one at which the command has what it needs.                             *)
LEMMA EndsWhen ==
  ASSUME CleanInv, NEW token, Separator(token), Whole(handler[1]), ~Beyond
  PROVE  /\ param \in Nat /\ Needed(typed[handler[1]]) \in Nat
         /\ param + 1 <= Needed(typed[handler[1]])
         /\ param + 1 < Needed(typed[handler[1]]) =>
              ~break_loop' /\ UNCHANGED executed /\ Word(handler) \notin Mode
         /\ /\ param + 1 = Needed(typed[handler[1]]) /\ Needed(typed[handler[1]]) = Format.end
            /\ Word(handler) \notin Connect
            => break_loop'
<1>0. ParserInv /\ TypeInv
  BY DEF CleanInv, ParserInv
<1>1. /\ handler # None /\ handler' = handler /\ param' = param + 1
      /\ break_loop' \in Ends(param + 1) /\ Receive(token)
      /\ (Runs(param + 1) /\ Run(handler, args')) \/ (~Runs(param + 1) /\ UNCHANGED executed)
  BY DEF Separator
<1>2. PICK l \in Line : l = typed[handler[1]] /\ l.word = Word(handler) /\ l.word \in KnownWord
  BY <1>0, <1>1, InLoop DEF Word
<1>3. param \in Nat /\ Needed(l) \in Nat /\ Command[l.word].end \in Nat
  BY <1>0, <1>2, NeededFacts DEF TypeInv, ParserOK
<1>4. param + 1 <= Needed(l)
  <2>1. ~(param >= Needed(l))
    BY <1>2 DEF Beyond
  <2> QED BY <1>3, <2>1, SMT
<1>5. Needed(l) <= Format.end /\ Format.end = Command[l.word].end
  <2>1. Format.end = Command[l.word].end
    BY <1>2 DEF Format
  <2>2. CASE l.word = "AT+MGWF "
    <3>1. Command[l.word].end = 9 /\ (Needed(l) = 9 \/ Needed(l) = 6)
      BY <1>2, <2>2, FormatFacts, NeededFacts, Zenon
    <3>2. 9 <= 9 /\ 6 <= 9
      BY SMT
    <3> QED BY <2>1, <3>1, <3>2, Zenon
  <2>3. CASE l.word # "AT+MGWF "
    <3>1. Needed(l) = Command[l.word].end
      BY <1>2, <2>3, NeededFacts
    <3>2. Command[l.word].end <= Command[l.word].end
      BY <1>3, SMT
    <3> QED BY <2>1, <3>1, <3>2, Zenon
  <2> QED BY <2>2, <2>3
<1>6. ASSUME Word(handler) \in Mode PROVE param + 1 = Needed(l) /\ break_loop'
  <2>1. param + 1 = Needed(l)
    <3>1. Needed(l) = 1
      BY <1>2, <1>6, NeededFacts
    <3> QED BY <1>3, <1>4, <3>1, SMT
  <2>2. Tracked'
    BY <1>0, SeparatorTracked
  <2>3. handler' # None /\ Whole(handler[1])' /\ Word(handler)' = Word(handler)
    <3>1. UNCHANGED <<typed, dropped>>
      BY <1>0, <1>1, Received
    <3> QED BY <1>1, <3>1 DEF Whole, Word
  <2>4. param' >= 1
    BY <1>1, <1>3, SMT
  <2> QED BY <1>6, <2>1, <2>2, <2>3, <2>4 DEF Tracked, ModeEnds
<1>7. ASSUME param + 1 < Needed(l)
      PROVE  ~break_loop' /\ UNCHANGED executed /\ Word(handler) \notin Mode
  <2>1. Word(handler) \notin Mode
    BY <1>3, <1>6, <1>7, SMT
  <2>2. param + 1 # Format.end
    BY <1>3, <1>5, <1>7, SMT
  <2>3. ~Runs(param + 1)
    BY <2>1, <2>2, Zenon DEF Runs
  <2>4. Word(handler) \in Connect => param + 1 # 4
    BY <1>2, <1>5, <2>2, WordFacts
  <2>5. Ends(param + 1) = {FALSE}
    <3>1. (param + 1 = Format.end) = FALSE
      BY <2>2
    <3> QED BY <2>1, <2>4, <3>1, Zenon DEF Ends
  <2> QED BY <1>1, <2>1, <2>3, <2>5
<1>8. ASSUME param + 1 = Needed(l), Needed(l) = Format.end, Word(handler) \notin Connect
      PROVE  break_loop'
  <2>1. CASE Word(handler) \in Mode
    BY <1>6, <2>1
  <2>2. CASE Word(handler) \notin Mode
    <3>1. (param + 1 = Format.end) = TRUE
      BY <1>8
    <3>2. Ends(param + 1) = {TRUE}
      BY <1>8, <2>2, <3>1, Zenon DEF Ends
    <3> QED BY <1>1, <3>2
  <2> QED BY <2>1, <2>2
<1> QED BY <1>2, <1>3, <1>4, <1>7, <1>8

LEMMA ReadyReceived ==
  ASSUME CleanInv, NEW token,
         \/ IgnoreLineEnd(token) \/ Accumulate(token)
         \/ RunAtOnce(token) \/ BeginArguments(token)
         \/ CollectText(token) \/ Separator(token) \/ LeaveAfter(token)
  PROVE  Ready'
<1>0. TypeInv /\ Tracked /\ InOrder /\ Idle /\ Ready
  BY DEF CleanInv, ParserInv
<1>1. Receive(token)
  BY DEF IgnoreLineEnd, Accumulate, RunAtOnce, BeginArguments, CollectText,
         Separator, LeaveAfter
<1>2. last' = token /\ typed' = typed /\ token[1] \in Nat /\ token \in Sent
  BY <1>1, ReceivedOn
<1>3. PICK n : n = token[1]
  OBVIOUS
<1>4. n \in 1 .. Len(typed) /\ typed \in Seq(Line)
  BY <1>0, <1>2, <1>3 DEF Sent, TypeInv, HostOK
<1>5. PICK l \in Line : l = typed[n]
  BY <1>4, ElementOfSeq
<1>6. PICK b \in Nat : b = Len(l.body)
  BY LineEnd
<1> DEFINE A == handler # None /\ handler[1] = n /\ ~break_loop /\ ~Beyond
           B == handler # None /\ break_loop /\ last[2] > b /\ last[2] <= b + 2
           C == handler = None /\ message_index = 0 /\ last[2] > b
<1>7. CrPosition(n) = b + 2 /\ Len(typed[n].body) = b /\ typed'[n] = l
  BY <1>2, <1>5, <1>6 DEF CrPosition
<1>8. A' \/ B' \/ C' => Ready'
  BY <1>2, <1>3, <1>7 DEF Ready, CrPosition
<1>9. Delimited(n)' = Delimited(n)
  BY <1>2 DEF Delimited
<1> SUFFICES ASSUME n \in clean', Delimited(n) PROVE A' \/ B' \/ C'
  BY <1>2, <1>3, <1>8, <1>9 DEF Ready
<1>10. /\ l.word \in KnownWord /\ l.word \notin Connect
       /\ Command[l.word] = NoArguments => l.body = << >>
       /\ Command[l.word] # NoArguments =>
            /\ l.body # << >> /\ Needed(l) = Command[l.word].end
            /\ Cardinality(SeparatorsUpTo(l, b)) < Needed(l)
  BY <1>5, <1>6, Zenon DEF Delimited
<1>11. CASE n \notin clean
  <2>1. /\ token[2] = 1 /\ handler = None /\ message_index = 0
        /\ Found(token) /\ Kind(token) \notin {"CR", "LF"}
    BY <1>1, <1>3, <1>5, <1>10, <1>11, FirstToken DEF Word
  <2>2. RunAtOnce(token) \/ BeginArguments(token)
    BY <2>1 DEF IgnoreLineEnd, Accumulate, CollectText, Separator, LeaveAfter
  <2>3. Word(token) = l.word
    BY <1>3, <1>5 DEF Word
  <2>4. CASE RunAtOnce(token)
    <3>1. handler' = None /\ message_index' = 0 /\ Command[l.word] = NoArguments
      BY <2>1, <2>3, <2>4 DEF RunAtOnce
    <3>2. b = 0
      <4>1. Len(<< >>) = 0
        OBVIOUS
      <4> QED BY <1>6, <1>10, <3>1, <4>1
    <3>3. last'[2] > b
      BY <1>2, <2>1, <3>2, SMT
    <3> QED BY <3>1, <3>3
  <2>5. CASE BeginArguments(token)
    <3>1. /\ handler' = token /\ param' = 0 /\ UNCHANGED break_loop
          /\ Command[l.word] # NoArguments
      BY <2>3, <2>5 DEF BeginArguments
    <3>2. ~break_loop' /\ handler' # None
      BY <1>0, <1>2, <2>1, <3>1, NoneNotSent DEF Idle
    <3>3. Needed(l) \in Nat \ {0}
      BY <1>10, <3>1, WordFacts DEF Sound
    <3>4. ~(param' >= Needed(l))
      BY <3>1, <3>3, SMT
    <3>5. ~Beyond'
      BY <1>3, <1>7, <3>1, <3>4 DEF Beyond
    <3> QED BY <1>3, <3>1, <3>2, <3>5
  <2> QED BY <2>2, <2>4, <2>5
<1>12. CASE n \in clean
  <2>1. PICK i \in Nat : i = last[2] /\ i >= 1 /\ token[2] = i + 1 /\ last[1] = n
                         /\ i + 1 <= Len(LineText(l)) /\ Kind(token) = LineText(l)[i + 1]
    BY <1>1, <1>3, <1>5, <1>12, SameLine
  <2>2. A \/ B \/ C
    BY <1>0, <1>7, <1>12, <2>1 DEF Ready
  <2>3. Len(LineText(l)) = b + 3 /\ LineText(l)[b + 2] = "CR" /\ LineText(l)[b + 3] = "LF"
    BY <1>6, LineEnd
  <2>4. CASE A
    <3>1. CollectText(token) \/ Separator(token)
      BY <2>4 DEF IgnoreLineEnd, Accumulate, RunAtOnce, BeginArguments, LeaveAfter
    <3>2. handler' = handler /\ handler' # None /\ handler'[1] = n
      BY <2>4, <3>1 DEF CollectText, Separator
    <3>3. CASE CollectText(token)
      <4>1. UNCHANGED <<param, break_loop>>
        BY <3>3 DEF CollectText
      <4>2. ~Beyond'
        BY <1>2, <2>4, <3>2, <4>1 DEF Beyond
      <4> QED BY <2>4, <3>2, <4>1, <4>2
    <3>4. CASE Separator(token)
      <4>0. Whole(n)
        BY <1>0, <1>12 DEF InOrder
      <4>1. PICK e \in Nat : e = Needed(l)
        BY <1>10, NeededFacts
      <4>2. /\ param \in Nat /\ param + 1 <= e
            /\ param + 1 < e => ~break_loop'
            /\ param + 1 = e /\ e = Format.end /\ Word(handler) \notin Connect => break_loop'
        BY <1>5, <2>4, <3>4, <4>0, <4>1, EndsWhen
      <4>3. Word(handler) = l.word /\ Format = Command[l.word]
        BY <1>5, <2>4 DEF Word, Format
      <4>4. param' = param + 1 /\ Separates(token)
        BY <3>4 DEF Separator
      <4>5. CASE param + 1 < e
        <5>1. ~(param' >= e)
          BY <4>2, <4>4, <4>5, SMT
        <5>2. ~Beyond'
          BY <1>7, <3>2, <4>1, <5>1 DEF Beyond
        <5> QED BY <3>2, <4>2, <4>5, <5>2
      <4>6. CASE param + 1 = e
        <5>1. Command[l.word] # NoArguments
          <6>1. \A x : x \notin NoArguments.separators
            BY DEF NoArguments, Arguments
          <6> QED BY <4>3, <4>4, <6>1 DEF Separates
        <5>2. break_loop'
          BY <1>10, <4>1, <4>2, <4>3, <4>6, <5>1
        <5>3. LineText(l)[i + 1] \in Command[l.word].separators
          BY <2>1, <4>3, <4>4 DEF Separates
        <5>4. InLine
          BY <1>0, <2>4, <4>0 DEF Tracked
        <5>5. param = Cardinality(SeparatorsUpTo(l, i))
          BY <1>5, <2>1, <2>4, <5>4 DEF InLine
        <5>6. Cardinality(SeparatorsUpTo(l, i + 1)) = e
          BY <2>1, <4>6, <5>3, <5>5, Counted
        <5>7. i + 1 > b
          <6> SUFFICES ASSUME i + 1 <= b PROVE FALSE
            BY SMT
          <6>1. Cardinality(SeparatorsUpTo(l, i + 1)) <= Cardinality(SeparatorsUpTo(l, b))
                /\ Cardinality(SeparatorsUpTo(l, b)) \in Nat
            <7>1. i + 1 \in Nat /\ 1 <= i + 1
              BY SMT
            <7> QED BY <7>1, CountGrows
          <6>2. Cardinality(SeparatorsUpTo(l, b)) < e
            BY <1>10, <4>1, <5>1
          <6> QED BY <5>6, <6>1, <6>2, SMT
        <5>8. i + 1 <= b + 2
          <6>1. i + 1 # b + 3
            BY <1>10, <2>3, <5>3, WordFacts DEF Sound
          <6>2. i + 1 <= b + 3
            BY <2>1, <2>3
          <6> QED BY <6>1, <6>2, SMT
        <5> QED BY <1>2, <2>1, <3>2, <5>2, <5>7, <5>8
      <4> QED BY <4>2, <4>5, <4>6, SMT
    <3> QED BY <3>1, <3>3, <3>4
  <2>5. CASE B
    <3>1. LeaveAfter(token)
      BY <2>5 DEF IgnoreLineEnd, Accumulate, RunAtOnce, BeginArguments, CollectText, Separator
    <3>2. handler' = None /\ message_index' = 0
      BY <3>1 DEF LeaveAfter, Leave
    <3>3. i + 1 > b
      BY <2>1, <2>5, SMT
    <3> QED BY <1>2, <2>1, <3>2, <3>3
  <2>6. CASE C
    <3>1. Kind(token) \in {"CR", "LF"}
      <4>1. i + 1 = b + 2 \/ i + 1 = b + 3
        BY <2>1, <2>3, <2>6, SMT
      <4> QED BY <2>1, <2>3, <4>1
    <3>2. ~Found(token)
      <4>1. token[2] # 1
        BY <2>1, SMT
      <4> QED BY <4>1 DEF Found
    <3>3. IgnoreLineEnd(token)
      BY <2>6, <3>1, <3>2 DEF Accumulate, RunAtOnce, BeginArguments, CollectText, Separator, LeaveAfter
    <3>4. handler' = None /\ message_index' = 0
      BY <2>6, <3>3 DEF IgnoreLineEnd, parser
    <3>5. i + 1 > b
      BY <2>1, <2>6, SMT
    <3> QED BY <1>2, <2>1, <3>4, <3>5
  <2> QED BY <2>2, <2>4, <2>5, <2>6
<1> QED BY <1>11, <1>12

LEMMA ReadyNothing ==
  ASSUME CleanInv, Pause \/ LeaveEmpty
  PROVE  Ready'
<1>0. TypeInv /\ Ready /\ ReceiveNothing
  BY DEF CleanInv, ParserInv, Pause, LeaveEmpty
<1>1. UNCHANGED <<typed, last>> /\ clean' \subseteq clean
  BY <1>0, NothingReceived DEF ReceiveNothing, NoteEmpty
<1>2. PICK n : n = last[1]
  OBVIOUS
<1>3. Delimited(n)' = Delimited(n)
  BY <1>1 DEF Delimited
<1>4. handler' = None /\ message_index' = 0
  BY DEF Pause, LeaveEmpty, Leave
<1> SUFFICES ASSUME n \in clean', Delimited(n) PROVE last[2] > Len(typed[n].body)
  BY <1>1, <1>2, <1>3, <1>4 DEF Ready
<1>5. n \in clean /\ typed[n] \in Line /\ n >= 1 /\ last[2] \in Nat /\ n \in Nat
  BY <1>0, <1>1, Lines
<1>6. PICK b \in Nat : b = Len(typed[n].body)
  BY <1>5, LineEnd
<1>7. CASE handler # None /\ handler[1] = n /\ ~break_loop /\ ~Beyond
  <2>1. typed[n].body = << >> \/ ~(last[2] < b + 2)
    <3>1. n # 0
      BY <1>5, SMT
    <3> QED BY <1>0, <1>2, <1>6, <3>1, Zenon DEF ReceiveNothing, NoteEmpty, CrPosition
  <2>2. CASE typed[n].body = << >>
    <3>1. last[2] >= 1
      BY <1>0, <1>2, <1>5, LastIsSent, SMT
    <3>2. b = 0
      <4>1. Len(<< >>) = 0
        OBVIOUS
      <4> QED BY <1>6, <2>2, <4>1
    <3> QED BY <1>5, <1>6, <3>1, <3>2, SMT
  <2>3. CASE ~(last[2] < b + 2)
    BY <1>5, <1>6, <2>3, SMT
  <2> QED BY <2>1, <2>2, <2>3
<1> QED BY <1>0, <1>2, <1>5, <1>7 DEF Ready

-----------------------------------------------------------------------------
(* A line that has run stays so; a later one runs behind it; one that runs *)
(* now is behind all that were executed.                                   *)
LEMMA TypedAs ==
  ASSUME NEW n, typed'[n] = typed[n], NEW a
  PROVE  AsTyped(a, n)' <=> AsTyped(a, n)
BY Zenon DEF AsTyped

LEMMA RanKept ==
  ASSUME NEW n, typed'[n] = typed[n], UNCHANGED executed, HasRun(n)
  PROVE  HasRun(n)'
<1>1. PICK i \in 1 .. Len(executed) : RanAt(n, i)
  BY DEF HasRun
<1>2. PICK a : a = executed[i].args
  OBVIOUS
<1>3. AsTyped(a, n)'
  BY <1>1, <1>2, TypedAs DEF RanAt
<1>4. AsTyped(executed[i].args, n)'
  BY <1>2, <1>3 DEF AsTyped
<1> QED BY <1>1, <1>4 DEF HasRun, RanAt

LEMMA RanLater ==
  ASSUME TypeInv, NEW n \in Nat, typed'[n] = typed[n], HasRun(n),
         NEW word \in Piece, NEW arguments \in Seq(Seq(Piece)), Run(word, arguments), n < word[1]
  PROVE  HasRun(n)'
<1>1. PICK i \in 1 .. Len(executed) : RanAt(n, i)
  BY DEF HasRun
<1>2. /\ Len(executed) \in Nat /\ Len(executed') = Len(executed) + 1
      /\ \A k \in 1 .. Len(executed) : executed'[k] = executed[k]
      /\ executed'[Len(executed) + 1] = [line |-> word[1], args |-> arguments]
  BY Recorded
<1>3. PICK m \in Nat : m = Len(executed)
  BY <1>2
<1>4. PICK w \in Nat : w = word[1] /\ executed'[m + 1].line = w
  BY <1>2, <1>3 DEF Piece
<1>5. PICK a : a = executed[i].args /\ executed'[i].args = a
  BY <1>1, <1>2
<1>6. AsTyped(executed[i].args, n)'
  <2>1. AsTyped(a, n)'
    BY <1>1, <1>5, TypedAs DEF RanAt
  <2> QED BY <1>5, <2>1 DEF AsTyped
<1>7. \A j \in 1 .. m + 1 : j \in 1 .. m \/ j = m + 1
  BY SMT
<1>8. i \in 1 .. m + 1 /\ i < m + 1 /\ ~(m + 1 < i) /\ i \in Nat
  BY <1>1, <1>3, SMT
<1>9. ASSUME NEW j \in 1 .. m + 1
      PROVE  (executed'[j].line < n <=> j < i) /\ (executed'[j].line > n <=> j > i)
  <2>1. CASE j \in 1 .. m
    BY <1>1, <1>2, <1>3, <2>1 DEF RanAt
  <2>2. CASE j = m + 1
    <3>1. ~(w < n) /\ w > n /\ ~(j < i) /\ j > i
      BY <1>4, <1>8, <2>2, SMT
    <3> QED BY <1>4, <2>2, <3>1
  <2> QED BY <1>7, <2>1, <2>2
<1>10. executed'[i].line = n
  BY <1>1, <1>2 DEF RanAt
<1> QED BY <1>2, <1>3, <1>6, <1>8, <1>9, <1>10 DEF HasRun, RanAt

LEMMA RunsNow ==
  ASSUME TypeInv, NEW n \in Nat, typed'[n] = typed[n],
         \A j \in 1 .. Len(executed) : executed[j].line < n,
         NEW word \in Piece, NEW arguments \in Seq(Seq(Piece)), Run(word, arguments), word[1] = n,
         AsTyped(arguments, n)
  PROVE  HasRun(n)'
<1>1. /\ Len(executed) \in Nat /\ Len(executed') = Len(executed) + 1
      /\ \A k \in 1 .. Len(executed) : executed'[k] = executed[k] /\ executed[k].line \in Nat
      /\ executed'[Len(executed) + 1] = [line |-> word[1], args |-> arguments]
  BY Recorded, Lines
<1>2. PICK m \in Nat : m = Len(executed)
  BY <1>1
<1>3. executed'[m + 1].line = n /\ executed'[m + 1].args = arguments
  BY <1>1, <1>2
<1>4. AsTyped(executed[m + 1].args, n)'
  <2>1. AsTyped(arguments, n)'
    BY TypedAs
  <2> QED BY <1>3, <2>1 DEF AsTyped
<1>5. \A j \in 1 .. m + 1 : j \in 1 .. m \/ j = m + 1
  BY SMT
<1>6. ASSUME NEW j \in 1 .. m + 1
      PROVE  (executed'[j].line < n <=> j < m + 1) /\ (executed'[j].line > n <=> j > m + 1)
  <2>1. CASE j \in 1 .. m
    <3>1. PICK e \in Nat : e = executed'[j].line /\ e < n
      BY <1>1, <1>2, <2>1
    <3>2. e < n /\ ~(e > n) /\ j < m + 1 /\ ~(j > m + 1)
      BY <2>1, <3>1, SMT
    <3> QED BY <3>1, <3>2
  <2>2. CASE j = m + 1
    <3>1. ~(n < n) /\ ~(n > n) /\ ~(m + 1 < m + 1) /\ ~(m + 1 > m + 1)
      BY SMT
    <3> QED BY <1>3, <2>2, <3>1
  <2> QED BY <1>5, <2>1, <2>2
<1>7. m + 1 \in 1 .. m + 1
  BY SMT
<1> QED BY <1>1, <1>2, <1>3, <1>4, <1>6, <1>7, Zenon DEF HasRun, RanAt

(* Where read_sr is in a line whose arguments it collects.                 *)
LEMMA Collecting ==
  ASSUME CleanInv, NEW n \in clean, handler # None, handler[1] = n, ~Beyond
  PROVE  /\ last[1] = n /\ last[2] \in Nat /\ last[2] >= 1 /\ last[2] < Len(typed[n].body) + 2
         /\ param = Cardinality(SeparatorsUpTo(typed[n], last[2])) /\ param \in Nat
         /\ Needed(typed[n]) \in Nat /\ param + 1 <= Needed(typed[n])
         /\ typed[n] \in Line /\ typed[n].word = Word(handler) /\ typed[n].word \in KnownWord
         /\ Format = Command[typed[n].word] /\ Format # NoArguments
<1>0. TypeInv /\ Tracked /\ InOrder
  BY DEF CleanInv, ParserInv
<1>1. Whole(n) /\ n \in Nat /\ n >= 1
  BY <1>0, Lines DEF InOrder
<1>2. InLine
  BY <1>0, <1>1 DEF Tracked
<1>3. PICK l \in Line : l = typed[n] /\ l.word = Word(handler) /\ l.word \in KnownWord
  BY <1>0, InLoop DEF Word
<1>4. last[1] = n /\ param = Cardinality(SeparatorsUpTo(l, last[2]))
  BY <1>2, <1>3 DEF InLine
<1>5. last[2] \in Nat /\ last[2] >= 1
  <2>1. last[1] # 0
    BY <1>1, <1>4, SMT
  <2> QED BY <1>0, <2>1, Lines, LastIsSent
<1>6. param \in Nat /\ Needed(l) \in Nat /\ ~(param >= Needed(l))
  BY <1>0, <1>3, NeededFacts DEF TypeInv, ParserOK, Beyond
<1>7. last[2] < Len(l.body) + 2
  <2>1. PICK b \in Nat : b = Len(l.body)
    BY LineEnd
  <2>2. PICK i \in Nat : i = last[2]
    BY <1>5
  <2> SUFFICES ASSUME ~(i < b + 2) PROVE FALSE
    BY <2>1, <2>2
  <2>3. 1 <= b + 2 /\ b + 2 <= i /\ b + 2 \in Nat
    BY SMT
  <2>4. /\ Cardinality(SeparatorsUpTo(l, b + 2)) \in Nat
        /\ Cardinality(SeparatorsUpTo(l, b + 2)) <= Cardinality(SeparatorsUpTo(l, i))
    BY <2>3, CountGrows
  <2>5. Cardinality(SeparatorsUpTo(l, b + 2)) >= Needed(l)
    BY <1>3, <2>1, EnoughBeforeEnd
  <2> QED BY <1>4, <1>6, <2>2, <2>4, <2>5, SMT
<1>8. Format = Command[l.word] /\ Format # NoArguments
  <2>1. Format = Command[l.word]
    BY <1>3 DEF Format
  <2>2. ASSUME Command[l.word] = NoArguments PROVE FALSE
    <3>1. NoArguments.end = 0
      BY DEF NoArguments, Arguments
    <3>2. l.word # "AT+MGWF "
      <4>1. l.word = "AT+MGWF " => Command[l.word].end = 9
        BY <1>3, FormatFacts
      <4>2. 9 # 0
        BY SMT
      <4> QED BY <2>2, <3>1, <4>1, <4>2, Zenon
    <3>3. Needed(l) = 0
      BY <1>3, <2>2, <3>1, <3>2, NeededFacts
    <3> QED BY <1>6, <3>3, SMT
  <2> QED BY <2>1, <2>2
<1>9. param + 1 <= Needed(l)
  BY <1>6, SMT
<1> QED BY <1>3, <1>4, <1>5, <1>6, <1>7, <1>8, <1>9

LEMMA NoContent ==
  ASSUME message_sr \in Seq(Piece), message_index = 0
  PROVE  Content = << >>
BY DEF Content

(* A token that does not separate makes the text longer.                   *)
LEMMA CollectPending ==
  ASSUME CleanInv, NEW token, CollectText(token), NEW n \in clean,
         handler[1] = n, ~Beyond, Collected(n)
  PROVE  Collected(n)'
<1>0. TypeInv
  BY DEF CleanInv, ParserInv
<1>1. /\ Receive(token) /\ handler # None /\ ~Separates(token)
      /\ message_sr' = Append(Content, token) /\ message_index' = message_index + 1
      /\ UNCHANGED <<handler, param, args, break_loop, executed>>
  BY DEF CollectText
<1>2. last' = token /\ typed' = typed /\ token \in Piece /\ token[1] \in Nat
  BY <1>1, ReceivedOn
<1>3. PICK l \in Line : l = typed[n] /\ l.word = Word(handler) /\ Format = Command[l.word]
  BY <1>1, Collecting
<1>4. PICK i \in Nat : i = last[2] /\ i >= 1 /\ i < Len(l.body) + 2 /\ last[1] = n
  BY <1>1, <1>3, Collecting
<1>5. PICK p \in Nat : p = param /\ p = Cardinality(SeparatorsUpTo(l, i))
  BY <1>1, <1>3, <1>4, Collecting
<1>6. token[1] = n
  <2>1. Succeeds(last, token) /\ Whole(n)
    BY <1>1, ReceiveUnbroken DEF CleanInv, ParserInv, InOrder
  <2>2. n \in Nat /\ n >= 1 /\ n # 0
    <3>1. n \in Nat /\ n >= 1
      BY <1>0, Lines
    <3> QED BY <3>1, SMT
  <2>3. last # None
    BY <1>0, <1>4, <2>2, LastIsSent
  <2>4. last[2] < Len(Text(n))
    <3>1. Len(l.body) \in Nat /\ Len(LineText(l)) = Len(l.body) + 3
      BY LineEnd
    <3>2. i < Len(l.body) + 3
      BY <1>4, <3>1, SMT
    <3> QED BY <1>3, <1>4, <3>1, <3>2 DEF Text
  <2>5. token = <<last[1], last[2] + 1>>
    BY <1>4, <2>1, <2>3, <2>4 DEF Succeeds
  <2> QED BY <1>4, <2>5
<1>7. token = <<n, i + 1>> /\ token[2] = i + 1 /\ i + 1 <= Len(LineText(l))
      /\ Kind(token) = LineText(l)[i + 1]
  BY <1>1, <1>3, <1>4, <1>6, SameLine
<1>8. LineText(l)[i + 1] \notin Command[l.word].separators
  BY <1>1, <1>3, <1>7 DEF Separates
<1>9. Reached(l, p + 1, i + 1) = Reached(l, p + 1, i) \cup {i + 1}
  BY <1>4, <1>5, <1>7, <1>8, ReachedGrows
<1>10. PICK s \in Seq(Piece) : s = Content /\ Len(s) = message_index
  BY <1>0, <1>2, Stored
<1>11. PICK t \in Seq(Piece) : t = Append(s, token) /\ Len(t) = message_index + 1
  BY <1>0, <1>2, <1>10, Stored
<1>12. Spells(t, n, Reached(l, p + 1, i + 1))
  <2>1. Spells(s, n, Reached(l, p + 1, i))
    BY <1>3, <1>4, <1>5, <1>10 DEF Collected
  <2>2. \A q \in Reached(l, p + 1, i) : q \in Nat /\ q < i + 1
    <3> TAKE q \in Reached(l, p + 1, i)
    <3>1. q \in Places(l, p + 1) /\ q <= i
      BY DEF Reached
    <3>2. q \in Nat
      BY <3>1, PlaceOf
    <3> QED BY <3>1, <3>2, SMT
  <2>3. n \in Nat /\ i + 1 \in Nat
    BY <1>2, <1>6
  <2> QED BY <1>7, <1>9, <1>11, <2>1, <2>2, <2>3, SpellsMore
<1>13. Content' = t
  <2>1. message_sr' = t /\ message_index' = Len(t)
    BY <1>1, <1>10, <1>11
  <2>2. SubSeq(t, 1, Len(t)) = t
    OBVIOUS
  <2> QED BY <2>1, <2>2 DEF Content
<1>14. Format' = Format /\ typed'[n] = l
  BY <1>1, <1>2, <1>3 DEF Format, Word
<1>15. last'[2] = i + 1 /\ param' = p
  BY <1>1, <1>2, <1>5, <1>7
<1>16. Spells(Content, n, Reached(typed[n], param + 1, last[2]))'
  BY <1>12, <1>13, <1>14, <1>15 DEF Spells, Reached, Places
<1>17. message_index' = Len(message_sr')
  BY <1>1, <1>10, <1>11
<1>18. \A j \in DOMAIN args :
         IF Format.copy[j] <= param
         THEN Spells(args[j], n, Places(l, Format.copy[j])) ELSE args[j] = << >>
  BY <1>3, Zenon DEF Collected
<1>19. \A j \in DOMAIN args' :
         IF Format'.copy[j] <= param'
         THEN Spells(args'[j], n, Places(l, Format'.copy[j])) ELSE args'[j] = << >>
  BY <1>1, <1>14, <1>18
<1> QED BY <1>14, <1>16, <1>17, <1>19 DEF Collected, Spells, Places

(* A separator ends a text: the arguments that end there take it, and the  *)
(* next one begins.                                                        *)
LEMMA CopiedText ==
  ASSUME CleanInv, NEW token, Separator(token), NEW n \in clean,
         handler[1] = n, ~Beyond, Collected(n), Due(n)
  PROVE  \A j \in DOMAIN args :
           IF Format.copy[j] <= param + 1
           THEN Spells(Copied(param + 1)[j], n, Places(typed[n], Format.copy[j]))
           ELSE Copied(param + 1)[j] = << >>
<1>0. TypeInv /\ Tracked /\ InOrder
  BY DEF CleanInv, ParserInv
<1>1. /\ Receive(token) /\ handler # None /\ Separates(token)
      /\ message_sr \in Seq(Piece) /\ message_index \in Nat /\ Len(message_sr) \in Nat
      /\ message_index <= Len(message_sr)
  <2>1. message_sr \in Seq(Piece) /\ message_index \in 0 .. Len(message_sr)
    BY <1>0 DEF TypeInv, ParserOK
  <2> QED BY <2>1, LenProperties, SMT DEF Separator
<1>2. PICK l \in Line : /\ l = typed[n] /\ l.word = Word(handler) /\ l.word \in KnownWord
                        /\ Format = Command[l.word]
  BY <1>1, Collecting
<1>3. PICK i \in Nat : i = last[2] /\ i >= 1 /\ last[1] = n
  BY <1>1, Collecting
<1>4. PICK p \in Nat : p = param /\ p = Cardinality(SeparatorsUpTo(l, i)) /\ p + 1 <= Needed(l)
  BY <1>1, <1>2, <1>3, Collecting
<1>5. LineText(l)[i + 1] \in Command[l.word].separators
  <2>1. token = <<n, i + 1>> /\ Kind(token) = LineText(l)[i + 1]
    <3>1. Whole(handler[1])
      BY <1>0 DEF InOrder
    <3>2. token = <<n, i + 1>> /\ Kind(token) = LineText(l)[i + 1]
      BY <1>1, <1>2, <1>3, <3>1, Continues DEF CleanInv
    <3> QED BY <3>2
  <2> QED BY <1>1, <1>2, <2>1 DEF Separates
<1>6. Spells(Content, n, Places(l, p + 1))
  <2>1. Reached(l, p + 1, i) = Places(l, p + 1)
    BY <1>3, <1>4, <1>5, ReachedEnds
  <2> QED BY <1>2, <1>3, <1>4, <2>1 DEF Collected
<1>7. /\ DOMAIN args = DOMAIN Format.copy /\ Filled(l)
      /\ \A j \in DOMAIN args : Format.copy[j] \in 1 .. Format.end /\ Format.copy[j] \in Nat
  <2>1. Fine(Format) /\ DOMAIN args = DOMAIN Format.copy
    BY <1>0, <1>1, InLoop
  <2>2. \A j \in DOMAIN args : Format.copy[j] \in 1 .. Format.end
    BY <2>1 DEF Fine
  <2> QED BY <1>2, <2>1, <2>2, SMT DEF Due
<1> SUFFICES ASSUME NEW j \in DOMAIN args
             PROVE  IF Format.copy[j] <= p + 1
                    THEN Spells(Copied(p + 1)[j], n, Places(l, Format.copy[j]))
                    ELSE Copied(p + 1)[j] = << >>
  BY <1>2, <1>4
<1>8. PICK c \in Nat : c = Format.copy[j] /\ c \in 1 .. Format.end
  BY <1>7
<1>9. IF c <= p THEN Spells(args[j], n, Places(l, c)) ELSE args[j] = << >>
  BY <1>2, <1>4, <1>8, Zenon DEF Collected
<1>10. CASE c # p + 1
  <2>1. Word(handler) \notin Mode
    <3> SUFFICES ASSUME Word(handler) \in Mode PROVE FALSE
      OBVIOUS
    <3>1. Needed(l) = 1 /\ Format.end = 1
      BY <1>2, NeededFacts, FormatFacts
    <3>2. p = 0
      BY <1>4, <3>1, SMT
    <3>3. c = 1
      BY <1>8, <3>1, SMT
    <3> QED BY <1>10, <3>2, <3>3, SMT
  <2>2. Copied(p + 1)[j] = args[j]
    BY <1>8, <1>10, <2>1, Zenon DEF Copied
  <2>3. c <= p + 1 <=> c <= p
    BY <1>10, SMT
  <2> QED BY <1>8, <1>9, <2>2, <2>3
<1>11. CASE c = p + 1
  <2>1. Places(l, c) # {}
    BY <1>2, <1>4, <1>7, <1>8, <1>11 DEF Filled
  <2>2. message_sr = Content
    <3>1. Content # << >>
      <4> SUFFICES ASSUME Content = << >> PROVE FALSE
        OBVIOUS
      <4>1. \A k : k \notin DOMAIN << >>
        BY SMT
      <4>2. {Content[k] : k \in DOMAIN Content} = {}
        BY <4>1, Zenon
      <4>3. {<<n, q>> : q \in Places(l, c)} = {}
        BY <1>6, <1>11, <4>2 DEF Spells
      <4> QED BY <2>1, <4>3
    <3>2. message_index # 0
      BY <1>1, <3>1, NoContent
    <3>3. message_index = Len(message_sr)
      BY <3>2 DEF Collected
    <3>4. SubSeq(message_sr, 1, Len(message_sr)) = message_sr
      BY <1>1
    <3> QED BY <3>3, <3>4 DEF Content
  <2>3. ~(Word(handler) = "AT+MGWF " /\ j = 4 /\ Kind(args[1][1]) # "One")
    <3>0. SUFFICES ASSUME Word(handler) = "AT+MGWF ", j = 4, Kind(args[1][1]) # "One" PROVE FALSE
      OBVIOUS
    <3>1. Format.copy = <<1, 3, 6, 9>>
      BY <1>2, <3>0, FormatFacts
    <3>2. 4 \in DOMAIN <<1, 3, 6, 9>> /\ 1 \in DOMAIN <<1, 3, 6, 9>>
          /\ <<1, 3, 6, 9>>[4] = 9 /\ <<1, 3, 6, 9>>[1] = 1
      OBVIOUS
    <3>3. c = 9 /\ 1 \in DOMAIN args /\ Format.copy[1] = 1
      BY <1>7, <1>8, <3>0, <3>1, <3>2, Zenon
    <3>4. p >= 1 /\ 1 <= p /\ ~(p + 1 <= 6)
      BY <1>11, <3>3, SMT
    <3>5. Needed(l) # 6
      BY <1>4, <3>4
    <3>6. LineText(l)[2] = "One"
      BY <1>2, <3>0, <3>5, NeededFacts, Zenon
    <3>7. Spells(args[1], n, Places(l, 1))
      BY <1>2, <1>4, <3>3, <3>4, Zenon DEF Collected
    <3>8. args[1] # << >> /\ args[1][1] \in {handler, <<n, 2>>}
      <4>1. FeedMode
        BY <1>0, <1>1 DEF Tracked, InOrder
      <4> QED BY <1>4, <3>0, <3>4, <4>1, Zenon DEF FeedMode
    <3>9. args[1] \in Seq(Piece)
      BY <1>0, <3>3 DEF TypeInv, ParserOK
    <3>10. 1 \in DOMAIN args[1]
      <4>1. Len(args[1]) \in Nat /\ DOMAIN args[1] = 1 .. Len(args[1])
        BY <3>9, LenProperties
      <4>2. Len(args[1]) # 0
        BY <3>8, <3>9, EmptySeq
      <4> QED BY <4>1, <4>2, SMT
    <3>11. args[1][1] \in {<<n, q>> : q \in Places(l, 1)}
      BY <3>7, <3>10, Zenon DEF Spells
    <3>12. PICK q \in Places(l, 1) : args[1][1] = <<n, q>>
      BY <3>11
    <3>13. q >= 2 /\ q \in Nat
      <4>1. 1 \in Nat
        BY SMT
      <4> QED BY <4>1, PlaceOf
    <3>14. handler[2] = 1
      BY <1>0, <1>1, InLoop
    <3>15. args[1][1] # handler
      <4>1. q # 1
        BY <3>13, SMT
      <4> QED BY <3>12, <3>14, <4>1
    <3>16. Kind(<<n, 2>>) = LineText(l)[2]
      BY <1>2 DEF Kind, Text
    <3> QED BY <3>0, <3>6, <3>8, <3>15, <3>16
  <2>4. Copied(p + 1)[j] = message_sr
    BY <1>8, <1>11, <2>2, <2>3, Zenon DEF Copied
  <2>5. c <= p + 1
    BY <1>11, SMT
  <2> QED BY <1>6, <1>8, <1>11, <2>2, <2>4, <2>5
<1> QED BY <1>10, <1>11

LEMMA NextText ==
  ASSUME CleanInv, NEW token, Separator(token), NEW n \in clean,
         handler[1] = n, ~Beyond, Collected(n), Due(n)
  PROVE  /\ Spells(Content, n, Reached(typed[n], param + 1, last[2]))'
         /\ message_index' # 0 => message_index' = Len(message_sr')
<1>0. TypeInv /\ Tracked /\ InOrder
  BY DEF CleanInv, ParserInv
<1>1. /\ Receive(token) /\ handler # None /\ Separates(token) /\ param' = param + 1
      /\ message_index' = IF Word(handler) \in ToServer /\ param = 0 THEN message_index ELSE 0
      /\ UNCHANGED <<message_sr, handler>>
      /\ message_sr \in Seq(Piece)
  BY <1>0 DEF Separator, TypeInv, ParserOK
<1>2. PICK l \in Line : /\ l = typed[n] /\ l.word = Word(handler) /\ l.word \in KnownWord
                        /\ Format = Command[l.word]
  BY <1>1, Collecting
<1>3. PICK i \in Nat : i = last[2] /\ i >= 1 /\ last[1] = n
  BY <1>1, Collecting
<1>4. PICK p \in Nat : p = param /\ p = Cardinality(SeparatorsUpTo(l, i)) /\ p + 1 <= Needed(l)
  BY <1>1, <1>2, <1>3, Collecting
<1>5. /\ LineText(l)[i + 1] \in Command[l.word].separators
      /\ last'[2] = i + 1 /\ typed'[n] = l
  <2>1. token = <<n, i + 1>> /\ Kind(token) = LineText(l)[i + 1]
    <3>1. Whole(handler[1])
      BY <1>0 DEF InOrder
    <3> QED BY <1>1, <1>2, <1>3, <3>1, Continues DEF CleanInv
  <2>2. last' = token /\ typed' = typed
    BY <1>1, ReceivedOn
  <2> QED BY <1>1, <1>2, <2>1, <2>2 DEF Separates
<1>6. Reached(l, p + 2, i + 1) = {}
  BY <1>3, <1>4, <1>5, ReachedEnds
<1>7. message_index' = 0 /\ message_sr' \in Seq(Piece)
  <2>1. CASE ~(Word(handler) \in ToServer /\ param = 0)
    BY <1>1, <2>1
  <2>2. CASE Word(handler) \in ToServer /\ param = 0
    <3>1. LineText(l)[2] \in Command[l.word].separators
      BY <1>2, <2>2 DEF Due, Filled
    <3>2. i = 1
      <4>0. p = 0
        BY <1>4, <2>2
      <4> SUFFICES ASSUME i # 1 PROVE FALSE
        OBVIOUS
      <4>1. 1 + 1 = 2 /\ 1 <= 2 /\ 2 <= i /\ 1 \in Nat /\ 2 \in Nat /\ 1 >= 1
        BY <1>3, SMT
      <4>2. Cardinality(SeparatorsUpTo(l, 1)) = 0
        BY NoneCounted
      <4>3. Cardinality(SeparatorsUpTo(l, 1 + 1)) = Cardinality(SeparatorsUpTo(l, 1)) + 1
        BY <3>1, <4>1, Counted
      <4>4. Cardinality(SeparatorsUpTo(l, 2)) = 1
        BY <4>1, <4>2, <4>3
      <4>5. Cardinality(SeparatorsUpTo(l, 2)) <= Cardinality(SeparatorsUpTo(l, i))
        BY <4>1, CountGrows
      <4>6. 1 <= p
        BY <1>4, <4>4, <4>5
      <4> QED BY <4>0, <4>6, SMT
    <3>3. Reached(l, p + 1, i) = {}
      <4>1. p + 1 \in Nat
        BY SMT
      <4> QED BY <3>2, <4>1, ReachedBegins
    <3>4. Spells(Content, n, {})
      BY <1>2, <1>3, <1>4, <3>3 DEF Collected
    <3>5. PICK s \in Seq(Piece) : s = Content /\ Len(s) = message_index
      BY <1>0, Stored, NoneNotSent
    <3>6. s = << >>
      BY <3>4, <3>5, SpellsNothing
    <3>7. Len(<< >>) = 0
      OBVIOUS
    <3> QED BY <1>1, <2>2, <3>5, <3>6, <3>7
  <2> QED BY <1>1, <2>1, <2>2
<1>8. Content' = << >>
  BY <1>7, SMT DEF Content
<1>9. param' + 1 = p + 2
  BY <1>1, <1>4, SMT
<1>10. Spells(<< >>, n, {})
  <2>1. << >> \in Seq(Piece)
    OBVIOUS
  <2> QED BY <2>1, SpellsNothing
<1> QED BY <1>5, <1>6, <1>7, <1>8, <1>9, <1>10 DEF Spells, Reached, Places

LEMMA SeparatorPending ==
  ASSUME CleanInv, NEW token, Separator(token), NEW n \in clean,
         Pending(n), ~Beyond, Collected(n), Due(n)
  PROVE  (HasRun(n) /\ Passed(n))' \/ Pending(n)'
<1>0. TypeInv /\ InOrder
  BY DEF CleanInv, ParserInv
<1>1. /\ Receive(token) /\ handler # None /\ handler[1] = n /\ param' = param + 1
      /\ args' = Copied(param + 1) /\ ~break_loop
      /\ (Runs(param + 1) /\ Run(handler, args')) \/ (~Runs(param + 1) /\ UNCHANGED executed)
      /\ UNCHANGED <<message_sr, handler>>
      /\ \A j \in 1 .. Len(executed) : executed[j].line # n
  BY DEF Separator, Pending
<1>2. typed' = typed /\ last' = token
  BY <1>1, ReceivedOn
<1>3. PICK l \in Line : /\ l = typed[n] /\ l.word = Word(handler) /\ l.word \in KnownWord
                        /\ Format = Command[l.word]
  BY <1>1, Collecting
<1>4. Format' = Format /\ Word(handler)' = Word(handler) /\ typed'[n] = l
  BY <1>1, <1>2, <1>3 DEF Format, Word
<1>5. PICK p \in Nat : p = param
  BY <1>1, Collecting
<1>6. PICK e \in Nat : e = Needed(l) /\ p + 1 <= e
  BY <1>1, <1>3, <1>5, Collecting
<1>7. PICK a \in Seq(Seq(Piece)) : a = args' /\ DOMAIN a = DOMAIN args
  BY <1>0, <1>1, CopiedArguments
<1>8. \A j \in DOMAIN a :
        IF Format.copy[j] <= p + 1 THEN Spells(a[j], n, Places(l, Format.copy[j]))
        ELSE a[j] = << >>
  BY <1>1, <1>3, <1>5, <1>7, CopiedText
<1>9. DOMAIN a = DOMAIN Format.copy
  BY <1>0, <1>1, <1>7, InLoop
<1>10. CASE p + 1 < e
  <2>1. ~break_loop' /\ UNCHANGED executed
    BY <1>0, <1>1, <1>3, <1>5, <1>6, <1>10, EndsWhen DEF InOrder
  <2>2. ~Beyond'
    <3>1. ~(p + 1 >= e)
      BY <1>10, SMT
    <3> QED BY <1>1, <1>4, <1>5, <1>6, <3>1 DEF Beyond
  <2>3. Collected(n)'
    <3>1. /\ Spells(Content, n, Reached(typed[n], param + 1, last[2]))'
          /\ message_index' # 0 => message_index' = Len(message_sr')
      BY <1>1, NextText
    <3>2. \A j \in DOMAIN args' :
            IF Format'.copy[j] <= param'
            THEN Spells(args'[j], n, Places(l, Format'.copy[j])) ELSE args'[j] = << >>
      BY <1>1, <1>4, <1>5, <1>7, <1>8
    <3> QED BY <1>4, <3>1, <3>2 DEF Collected, Spells, Places
  <2> QED BY <1>1, <2>1, <2>2, <2>3 DEF Pending
<1>11. CASE p + 1 = e
  <2>1. AsTyped(a, n)
    BY <1>3, <1>6, <1>8, <1>9, <1>11, Zenon DEF AsTyped
  <2>2. Beyond'
    <3>1. p + 1 >= e
      BY <1>11, SMT
    <3> QED BY <1>1, <1>4, <1>5, <1>6, <3>1 DEF Beyond
  <2>3. CASE Word(handler) \in Unconditional
    <3>1. ~Runs(p + 1)
      <4>1. Word(handler) \notin Mode
        BY <1>3, <2>3, WordFacts
      <4> QED BY <2>3, <4>1, Zenon DEF Runs
    <3>2. UNCHANGED executed
      BY <1>1, <1>5, <3>1
    <3>3. AsTyped(args, n)'
      <4>1. AsTyped(a, n)'
        BY <1>2, <2>1, TypedAs
      <4> QED BY <1>7, <4>1 DEF AsTyped
    <3> QED BY <1>1, <1>4, <2>2, <2>3, <3>2, <3>3 DEF Pending
  <2>4. CASE Word(handler) \notin Unconditional
    <3>1. Runs(p + 1)
      <4>1. CASE Word(handler) \in Mode
        <5>1. p + 1 > 0
          BY SMT
        <5> QED BY <4>1, <5>1, Zenon DEF Runs
      <4>2. CASE Word(handler) \notin Mode
        <5>1. "AT+MGWF " \in Unconditional
          BY DEF Unconditional
        <5>2. e = Format.end
          BY <1>3, <1>6, <2>4, <5>1, NeededFacts
        <5> QED BY <1>11, <2>4, <4>2, <5>2, Zenon DEF Runs
      <4> QED BY <4>1, <4>2
    <3>2. Run(handler, a)
      BY <1>1, <1>5, <1>7, <3>1
    <3>3. /\ n \in Nat /\ handler \in Piece
          /\ \A j \in 1 .. Len(executed) : executed[j].line < n
      <4>1. n \in Nat /\ handler \in Piece
        BY <1>0, <1>1, Lines, InLoop
      <4>2. ASSUME NEW j \in 1 .. Len(executed) PROVE executed[j].line < n
        <5>1. executed[j].line \in Nat /\ executed[j].line <= n /\ executed[j].line # n
          BY <1>0, <1>1, Lines DEF InOrder
        <5> QED BY <4>1, <5>1, SMT
      <4> QED BY <4>1, <4>2
    <3>4. HasRun(n)'
      BY <1>0, <1>1, <1>2, <2>1, <3>2, <3>3, RunsNow
    <3>5. Passed(n)'
      BY <1>1, <1>4, <2>2, <2>4 DEF Passed
    <3> QED BY <3>4, <3>5
  <2> QED BY <2>3, <2>4
<1> QED BY <1>6, <1>10, <1>11, SMT

(* A line whose first token is received begins, or runs at once.           *)
LEMMA BeginRunning ==
  ASSUME CleanInv, NEW token, Receive(token), NEW n \in clean', n \notin clean, Due(n),
         \/ IgnoreLineEnd(token) \/ Accumulate(token)
         \/ RunAtOnce(token) \/ BeginArguments(token)
         \/ CollectText(token) \/ Separator(token) \/ LeaveAfter(token)
  PROVE  (HasRun(n) /\ Passed(n))' \/ Pending(n)'
<1>0. TypeInv /\ Idle
  BY DEF CleanInv, ParserInv
<1>1. token[1] = n
  BY NewlyClean
<1>2. /\ token[2] = 1 /\ handler = None /\ message_index = 0 /\ Found(token)
      /\ Kind(token) \notin {"CR", "LF"}
      /\ \A j \in 1 .. Len(executed) : executed[j].line < n /\ executed[j].line \in Nat
  BY <1>0, <1>1, FirstToken, Lines DEF Due, Word
<1>3. last' = token /\ typed' = typed /\ token \in Piece /\ n \in Nat /\ token # None
  BY <1>0, <1>1, ReceivedOn, NoneNotSent
<1>4. PICK l \in Line : l = typed[n] /\ l.word = Word(token) /\ l.word \in KnownWord
  <2>1. n \in 1 .. Len(typed) /\ typed \in Seq(Line)
    BY <1>0, <1>1, Received DEF Sent, TypeInv, HostOK
  <2> QED BY <1>1, <2>1, ElementOfSeq DEF Due, Word
<1>5. RunAtOnce(token) \/ BeginArguments(token)
  BY <1>2 DEF IgnoreLineEnd, Accumulate, CollectText, Separator, LeaveAfter
<1>6. CASE RunAtOnce(token)
  <2>1. Command[l.word] = NoArguments /\ Run(token, << >>) /\ handler' = None
    BY <1>2, <1>4, <1>6 DEF RunAtOnce
  <2>2. AsTyped(<< >>, n)
    <3>1. NoArguments.copy = << >>
      BY DEF NoArguments, Arguments
    <3>2. \A j : j \notin DOMAIN << >>
      BY SMT
    <3> QED BY <1>4, <2>1, <3>1, <3>2, Zenon DEF AsTyped
  <2>3. << >> \in Seq(Seq(Piece))
    OBVIOUS
  <2>4. HasRun(n)'
    BY <1>0, <1>1, <1>2, <1>3, <2>1, <2>2, <2>3, RunsNow
  <2> QED BY <2>1, <2>4 DEF Passed
<1>7. CASE BeginArguments(token)
  <2>1. /\ handler' = token /\ param' = 0 /\ UNCHANGED <<break_loop, executed>>
        /\ Command[l.word] # NoArguments /\ message_index' = 0
        /\ args' = [j \in DOMAIN Command[l.word].copy |-> << >>]
    BY <1>2, <1>4, <1>7 DEF BeginArguments
  <2>2. Word(handler)' = l.word /\ Format' = Command[l.word] /\ typed'[n] = l
    BY <1>1, <1>3, <1>4, <2>1 DEF Word, Format
  <2>3. Needed(l) \in Nat \ {0}
    <3>1. CASE l.word = "AT+MGWF "
      <4>1. Needed(l) = 9 \/ Needed(l) = 6
        BY <1>4, <3>1, NeededFacts, Zenon
      <4>2. 9 \in Nat \ {0} /\ 6 \in Nat \ {0}
        BY SMT
      <4> QED BY <4>1, <4>2, Zenon
    <3>2. CASE l.word # "AT+MGWF "
      BY <1>4, <2>1, <3>2, NeededFacts, WordFacts, Zenon DEF Sound
    <3> QED BY <3>1, <3>2
  <2>4. ~Beyond'
    <3>1. ~(0 >= Needed(l))
      BY <2>3, SMT
    <3> QED BY <1>1, <2>1, <2>2, <3>1 DEF Beyond
  <2>5. ~break_loop'
    BY <1>0, <1>2, <2>1 DEF Idle
  <2>6. Collected(n)'
    <3>1. \A j \in DOMAIN args' :
            IF Format'.copy[j] <= param'
            THEN Spells(args'[j], n, Places(l, Format'.copy[j])) ELSE args'[j] = << >>
      <4>1. Fine(Command[l.word])
        BY <1>4, FormatFacts
      <4> TAKE j \in DOMAIN args'
      <4>2. j \in DOMAIN Command[l.word].copy /\ args'[j] = << >>
        BY <2>1
      <4>3. PICK c : c = Command[l.word].copy[j] /\ c \in 1 .. Command[l.word].end
        BY <4>1, <4>2 DEF Fine
      <4>4. ~(c <= 0)
        BY <4>1, <4>3, SMT DEF Fine
      <4> QED BY <2>1, <2>2, <4>2, <4>3, <4>4
    <3>2. Content' = << >>
      <4>1. message_sr' \in Seq(Piece)
        BY <1>0, <1>7, BeginTyped DEF ParserOK
      <4> QED BY <2>1, <4>1, SMT DEF Content
    <3>3. Reached(l, 0 + 1, 1) = {}
      <4>1. 0 + 1 \in Nat
        BY SMT
      <4> QED BY <4>1, ReachedBegins
    <3>4. Spells(<< >>, n, {})
      <4>1. << >> \in Seq(Piece)
        OBVIOUS
      <4> QED BY <4>1, SpellsNothing
    <3>5. Spells(Content, n, Reached(typed[n], param + 1, last[2]))'
      BY <1>2, <1>3, <2>1, <2>2, <3>2, <3>3, <3>4 DEF Spells, Reached, Places
    <3> QED BY <2>1, <2>2, <3>1, <3>5 DEF Collected, Spells, Places
  <2>7. \A j \in 1 .. Len(executed) : executed[j].line # n
    <3> TAKE j \in 1 .. Len(executed)
    <3>1. executed[j].line < n /\ executed[j].line \in Nat
      BY <1>2
    <3> QED BY <1>3, <3>1, SMT
  <2> QED BY <1>1, <1>3, <2>1, <2>4, <2>5, <2>6, <2>7 DEF Pending
<1> QED BY <1>5, <1>6, <1>7

(* A line that has run: what runs now came behind it, and the loop of its  *)
(* command runs nothing again.                                             *)
LEMMA AlreadyRun ==
  ASSUME CleanInv, NEW token, Receive(token), NEW n \in clean, HasRun(n), Passed(n),
         \/ IgnoreLineEnd(token) \/ Accumulate(token)
         \/ RunAtOnce(token) \/ BeginArguments(token)
         \/ CollectText(token) \/ Separator(token) \/ LeaveAfter(token)
  PROVE  (HasRun(n) /\ Passed(n))'
<1>0. TypeInv /\ InOrder /\ Tracked
  BY DEF CleanInv, ParserInv
<1>1. last' = token /\ typed' = typed /\ token \in Piece /\ token[1] \in Nat
  BY ReceivedOn
<1>2. n \in Nat /\ n <= last[1] /\ last[1] \in Nat /\ Whole(n)
  BY <1>0, Lines DEF InOrder
<1>3. ASSUME token[2] = 1 PROVE n < token[1]
  <2>1. last[1] < token[1]
    BY <1>3, ReceivedOn
  <2> QED BY <1>1, <1>2, <2>1, SMT
<1>4. CASE IgnoreLineEnd(token) \/ Accumulate(token)
  <2>1. UNCHANGED executed /\ handler' = None
    BY <1>4 DEF IgnoreLineEnd, Accumulate, parser
  <2> QED BY <1>1, <2>1, RanKept DEF Passed
<1>5. CASE RunAtOnce(token)
  <2>1. Run(token, << >>) /\ handler' = None /\ token[2] = 1
    BY <1>5 DEF RunAtOnce, Found
  <2>2. << >> \in Seq(Seq(Piece))
    OBVIOUS
  <2>3. HasRun(n)'
    BY <1>0, <1>1, <1>2, <1>3, <2>1, <2>2, RanLater
  <2> QED BY <2>1, <2>3 DEF Passed
<1>6. CASE BeginArguments(token)
  <2>1. UNCHANGED executed /\ handler' = token /\ token[2] = 1
    BY <1>6 DEF BeginArguments, Found
  <2>2. n < token[1] /\ token[1] > n
    <3>1. n < token[1]
      BY <1>3, <2>1
    <3> QED BY <1>1, <1>2, <3>1, SMT
  <2> QED BY <1>1, <2>1, <2>2, RanKept DEF Passed
<1>7. CASE CollectText(token)
  <2>1. UNCHANGED <<executed, handler, param>>
    BY <1>7 DEF CollectText
  <2> QED BY <1>1, <2>1, RanKept DEF Passed, Beyond, Word
<1>8. CASE Separator(token)
  <2>1. /\ handler # None /\ handler' = handler /\ ~break_loop /\ param' = param + 1
        /\ args' = Copied(param + 1)
        /\ (Runs(param + 1) /\ Run(handler, args')) \/ (~Runs(param + 1) /\ UNCHANGED executed)
    BY <1>8 DEF Separator
  <2>2. PICK h \in Nat : h = handler[1] /\ handler \in Piece
    BY <1>0, <2>1, InLoop
  <2>3. PICK a \in Seq(Seq(Piece)) : a = args'
    BY <1>0, <2>1, CopiedArguments
  <2>4. CASE h > n
    <3>1. n < h
      BY <1>2, <2>4, SMT
    <3>2. HasRun(n)'
      BY <1>0, <1>1, <1>2, <2>1, <2>2, <2>3, <3>1, RanLater, RanKept
    <3> QED BY <2>1, <2>2, <2>4, <3>2 DEF Passed
  <2>5. CASE h = n /\ Word(handler) \notin Unconditional /\ Beyond
    <3>1. PICK l \in Line : /\ l = typed[n] /\ l.word = Word(handler) /\ l.word \in KnownWord
                            /\ Format = Command[l.word]
      BY <1>0, <2>1, <2>2, <2>5, InLoop DEF Word, Format
    <3>2. PICK p \in Nat : p = param
      BY <1>0 DEF TypeInv, ParserOK
    <3>3. PICK e \in Nat : e = Needed(l) /\ p >= e
      BY <2>2, <2>5, <3>1, <3>2, NeededFacts DEF Beyond
    <3>4. Word(handler) \notin Mode
      <4> SUFFICES ASSUME Word(handler) \in Mode PROVE FALSE
        OBVIOUS
      <4>1. p >= 1
        BY <3>1, <3>3, NeededFacts
      <4>2. ModeEnds
        BY <1>0, <1>2, <2>1, <2>2, <2>5 DEF Tracked
      <4> QED BY <2>1, <3>2, <4>1, <4>2 DEF ModeEnds
    <3>5. e = Format.end
      <4>1. "AT+MGWF " \in Unconditional
        BY DEF Unconditional
      <4> QED BY <2>5, <3>1, <3>3, <4>1, NeededFacts
    <3>6. p + 1 # e
      BY <3>3, SMT
    <3>7. ~Runs(p + 1)
      BY <3>4, <3>5, <3>6, Zenon DEF Runs
    <3>8. HasRun(n)'
      BY <1>1, <2>1, <3>2, <3>7, RanKept
    <3>9. Beyond'
      <4>1. p + 1 >= e
        BY <3>3, SMT
      <4> QED BY <1>1, <2>1, <2>2, <2>5, <3>1, <3>2, <3>3, <4>1 DEF Beyond
    <3>10. Word(handler)' = Word(handler)
      BY <1>1, <2>1 DEF Word
    <3> QED BY <2>1, <2>2, <2>5, <3>8, <3>9, <3>10 DEF Passed
  <2> QED BY <2>1, <2>2, <2>4, <2>5 DEF Passed
<1>9. CASE LeaveAfter(token)
  <2>1. /\ handler # None /\ handler' = None
        /\ \/ Word(handler) \in Unconditional /\ Run(handler, args)
           \/ UNCHANGED executed
    BY <1>9 DEF LeaveAfter, Leave
  <2>2. CASE Word(handler) \in Unconditional /\ Run(handler, args)
    <3>1. handler[1] > n /\ handler \in Piece /\ handler[1] \in Nat /\ args \in Seq(Seq(Piece))
      BY <1>0, <2>1, <2>2, InLoop DEF Passed, TypeInv, ParserOK
    <3>2. n < handler[1]
      BY <1>2, <3>1, SMT
    <3> QED BY <1>0, <1>1, <1>2, <2>1, <2>2, <3>1, <3>2, RanLater DEF Passed
  <2>3. CASE UNCHANGED executed
    BY <1>1, <2>1, <2>3, RanKept DEF Passed
  <2> QED BY <2>1, <2>2, <2>3
<1> QED BY <1>4, <1>5, <1>6, <1>7, <1>8, <1>9

(* A command that runs with what it has, when its loop ends.               *)
LEMMA RunsAtEnd ==
  ASSUME CleanInv, NEW n \in clean, Leave, UNCHANGED typed,
         Pending(n), Word(handler) \in Unconditional, AsTyped(args, n)
  PROVE  (HasRun(n) /\ Passed(n))'
<1>0. TypeInv /\ InOrder
  BY DEF CleanInv, ParserInv
<1>1. /\ handler # None /\ handler[1] = n /\ Run(handler, args) /\ handler' = None
      /\ \A j \in 1 .. Len(executed) : executed[j].line # n
  BY DEF Pending, Leave
<1>2. n \in Nat /\ handler \in Piece /\ args \in Seq(Seq(Piece))
  BY <1>0, <1>1, Lines, InLoop DEF TypeInv, ParserOK
<1>3. ASSUME NEW j \in 1 .. Len(executed) PROVE executed[j].line < n
  <2>1. executed[j].line \in Nat /\ executed[j].line <= n /\ executed[j].line # n
    BY <1>0, <1>1, Lines DEF InOrder
  <2> QED BY <1>2, <2>1, SMT
<1>4. HasRun(n)'
  BY <1>0, <1>1, <1>2, <1>3, RunsNow
<1> QED BY <1>1, <1>4 DEF Passed

LEMMA StillPending ==
  ASSUME CleanInv, NEW token, Receive(token), NEW n \in clean, Due(n), Pending(n),
         \/ IgnoreLineEnd(token) \/ Accumulate(token)
         \/ RunAtOnce(token) \/ BeginArguments(token)
         \/ CollectText(token) \/ Separator(token) \/ LeaveAfter(token)
  PROVE  (HasRun(n) /\ Passed(n))' \/ Pending(n)'
<1>0. ParserInv /\ TypeInv /\ InOrder
  BY DEF CleanInv, ParserInv
<1>1. typed' = typed /\ Whole(n)
  BY <1>0, ReceivedOn DEF InOrder
<1>2. /\ handler # None /\ handler[1] = n
      /\ \A j \in 1 .. Len(executed) : executed[j].line # n
  BY DEF Pending
<1>3. CollectText(token) \/ Separator(token) \/ LeaveAfter(token)
  BY <1>2 DEF IgnoreLineEnd, Accumulate, RunAtOnce, BeginArguments
<1>4. CASE ~Beyond /\ ~break_loop /\ Collected(n)
  <2>1. CASE CollectText(token)
    <3>1. UNCHANGED <<handler, param, break_loop, executed>>
      BY <2>1 DEF CollectText
    <3>2. Collected(n)'
      BY <1>2, <1>4, <2>1, CollectPending
    <3>3. ~Beyond'
      BY <1>1, <1>4, <3>1 DEF Beyond
    <3> QED BY <1>2, <1>4, <3>1, <3>2, <3>3 DEF Pending
  <2>2. CASE Separator(token)
    BY <1>4, <2>2, SeparatorPending
  <2>3. ~LeaveAfter(token)
    BY <1>4 DEF LeaveAfter
  <2> QED BY <1>3, <2>1, <2>2, <2>3
<1>5. CASE Beyond /\ Word(handler) \in Unconditional /\ AsTyped(args, n)
  <2>1. CASE CollectText(token)
    <3>1. UNCHANGED <<handler, param, args, executed>>
      BY <2>1 DEF CollectText
    <3>2. AsTyped(args, n)' /\ Word(handler)' = Word(handler) /\ Beyond'
      BY <1>1, <1>5, <3>1, Zenon DEF AsTyped, Word, Beyond
    <3> QED BY <1>2, <1>5, <3>1, <3>2 DEF Pending
  <2>2. CASE Separator(token)
    <3>1. /\ handler' = handler /\ ~break_loop /\ param' = param + 1
          /\ args' = Copied(param + 1) /\ (~Runs(param + 1) => UNCHANGED executed)
      BY <2>2 DEF Separator
    <3>2. PICK l \in Line : l = typed[n] /\ l.word = Word(handler) /\ l.word \in KnownWord
      BY <1>0, <1>2, InLoop DEF Word
    <3>3. UNCHANGED executed
      <4>1. Word(handler) \notin Mode
        BY <1>5, <3>2, WordFacts
      <4>2. ~Runs(param + 1)
        BY <1>5, <4>1, Zenon DEF Runs
      <4> QED BY <3>1, <4>2
    <3>4. args' = args
      <4>1. \A j \in DOMAIN args : Copied(param + 1)[j] = args[j]
        BY <1>0, <1>1, <1>2, <1>5, <3>1, NothingCopied
      <4>2. /\ Copied(param + 1) \in Seq(Seq(Piece)) /\ Len(Copied(param + 1)) = Len(args)
            /\ DOMAIN args = 1 .. Len(args) /\ args \in Seq(Seq(Piece))
        BY <1>0, <1>2, CopiedArguments DEF TypeInv, ParserOK
      <4>3. PICK a \in Seq(Seq(Piece)) : a = Copied(param + 1)
        BY <4>2
      <4>4. \A j \in 1 .. Len(args) : a[j] = args[j]
        BY <4>1, <4>2, <4>3
      <4>5. Len(a) = Len(args)
        BY <4>2, <4>3
      <4>6. a = args
        BY <4>2, <4>4, <4>5, SeqEqual
      <4> QED BY <3>1, <4>3, <4>6
    <3>5. Beyond'
      <4>1. param \in Nat /\ Needed(l) \in Nat /\ param >= Needed(l)
        BY <1>0, <1>2, <1>5, <3>2, NeededFacts DEF Beyond, TypeInv, ParserOK
      <4>2. param + 1 >= Needed(l)
        BY <4>1, SMT
      <4> QED BY <1>1, <1>2, <3>1, <3>2, <4>2 DEF Beyond
    <3>6. AsTyped(args, n)' /\ Word(handler)' = Word(handler)
      BY <1>1, <1>5, <3>1, <3>4, Zenon DEF AsTyped, Word
    <3> QED BY <1>2, <1>5, <3>1, <3>3, <3>5, <3>6 DEF Pending
  <2>3. CASE LeaveAfter(token)
    BY <1>1, <1>5, <2>3, RunsAtEnd DEF LeaveAfter
  <2> QED BY <1>3, <2>1, <2>2, <2>3
<1> QED BY <1>4, <1>5 DEF Pending

LEMMA RunningReceived ==
  ASSUME CleanInv, NEW token,
         \/ IgnoreLineEnd(token) \/ Accumulate(token)
         \/ RunAtOnce(token) \/ BeginArguments(token)
         \/ CollectText(token) \/ Separator(token) \/ LeaveAfter(token)
  PROVE  Running'
<1>1. Receive(token)
  BY DEF IgnoreLineEnd, Accumulate, RunAtOnce, BeginArguments, CollectText,
         Separator, LeaveAfter
<1>2. typed' = typed /\ Running
  BY <1>1, ReceivedOn DEF CleanInv
<1>3. ASSUME NEW n \in clean', Due(n)' PROVE (HasRun(n) /\ Passed(n))' \/ Pending(n)'
  <2>1. Due(n)
    BY <1>2, <1>3 DEF Due
  <2>2. CASE n \notin clean
    BY <1>1, <2>1, <2>2, BeginRunning
  <2>3. CASE n \in clean /\ HasRun(n) /\ Passed(n)
    BY <1>1, <2>3, AlreadyRun
  <2>4. CASE n \in clean /\ Pending(n)
    BY <1>1, <2>1, <2>4, StillPending
  <2> QED BY <1>2, <2>1, <2>2, <2>3, <2>4 DEF Running
<1> QED BY <1>3 DEF Running

LEMMA RunningNothing ==
  ASSUME CleanInv, Pause \/ LeaveEmpty
  PROVE  Running'
<1>0. TypeInv /\ Running /\ ReceiveNothing
  BY DEF CleanInv, ParserInv, Pause, LeaveEmpty
<1>1. UNCHANGED <<typed, last>> /\ clean' \subseteq clean
  BY <1>0, NothingReceived DEF ReceiveNothing, NoteEmpty
<1>2. handler' = None
  BY DEF Pause, LeaveEmpty, Leave
<1>3. ASSUME NEW n \in clean', Due(n)' PROVE HasRun(n)'
  <2>1. n \in clean /\ Due(n) /\ n \in Nat /\ n >= 1
    BY <1>0, <1>1, <1>3, Lines DEF Due
  <2>2. CASE HasRun(n) /\ Passed(n)
    <3>1. CASE UNCHANGED executed
      BY <1>1, <2>2, <3>1, RanKept
    <3>2. CASE LeaveEmpty /\ Word(handler) \in Unconditional /\ Run(handler, args)
      <4>1. handler[1] > n /\ handler \in Piece /\ handler[1] \in Nat /\ args \in Seq(Seq(Piece))
        BY <1>0, <2>2, <3>2, InLoop DEF Passed, LeaveEmpty, TypeInv, ParserOK
      <4>2. n < handler[1]
        BY <2>1, <4>1, SMT
      <4> QED BY <1>0, <1>1, <2>1, <2>2, <3>2, <4>1, <4>2, RanLater
    <3> QED BY <3>1, <3>2 DEF Pause, LeaveEmpty, Leave
  <2>3. CASE Pending(n) /\ Beyond /\ Word(handler) \in Unconditional /\ AsTyped(args, n)
    <3>1. Leave
      BY <2>3 DEF Pending, Pause, LeaveEmpty
    <3> QED BY <1>1, <2>1, <2>3, <3>1, RunsAtEnd
  <2>4. CASE Pending(n) /\ ~Beyond
    <3>1. handler # None /\ handler[1] = n
      BY <2>4 DEF Pending
    <3>2. /\ last[1] = n /\ last[2] < Len(typed[n].body) + 2 /\ typed[n].word \in KnownWord
          /\ Command[typed[n].word] # NoArguments
      BY <2>1, <2>4, <3>1, Collecting
    <3>3. typed[n].body # << >>
      BY <2>1, <3>2 DEF Due, Filled
    <3>4. n # 0
      BY <2>1, SMT
    <3>5. n \notin clean'
      BY <1>0, <3>2, <3>3, <3>4, Zenon DEF ReceiveNothing, NoteEmpty, CrPosition
    <3> QED BY <1>3, <3>5
  <2> QED BY <1>0, <2>1, <2>2, <2>3, <2>4 DEF Running, Pending
<1> QED BY <1>2, <1>3 DEF Running, Passed

(* Nothing of this changes with what arrives in the queue.                 *)
LEMMA CleanKept ==
  ASSUME CleanInv, UNCHANGED <<parser, executed, last, drained>>, clean' \subseteq clean,
         \A n \in 1 .. Len(typed) : typed'[n] = typed[n],
         \A n \in clean' : Whole(n)'
  PROVE  InOrder' /\ Idle' /\ Ready' /\ Running'
<1>0. TypeInv /\ InOrder /\ Idle /\ Ready /\ Running
  BY DEF CleanInv, ParserInv
<1>1. UNCHANGED <<message_sr, message_index, handler, param, args, break_loop, executed,
                  last, drained>>
  BY DEF parser
<1>2. InOrder' /\ Idle'
  BY <1>0, <1>1 DEF InOrder, Idle
<1>3. \A n \in clean' : n \in clean /\ typed'[n] = typed[n]
  BY <1>0, Lines
<1>4. handler # None => typed'[handler[1]] = typed[handler[1]]
  BY <1>0, InLoop
<1>5. handler # None => (Beyond' <=> Beyond) /\ Word(handler)' = Word(handler) /\ Format' = Format
  BY <1>1, <1>4 DEF Beyond, Word, Format
<1>6. Ready'
  <2> SUFFICES ASSUME last[1] \in clean', Delimited(last[1])'
               PROVE  Ready'
    BY <1>1 DEF Ready
  <2>1. PICK n : n = last[1]
    OBVIOUS
  <2>2. n \in clean /\ typed'[n] = typed[n]
    BY <1>3, <2>1
  <2>3. Delimited(n)
    <3>1. Delimited(n)'
      BY <1>1, <2>1 DEF Delimited
    <3> QED BY <2>2, <3>1 DEF Delimited
  <2>4. CrPosition(n)' = CrPosition(n)
    BY <2>2 DEF CrPosition
  <2>5. \/ handler # None /\ handler[1] = n /\ ~break_loop /\ ~Beyond
        \/ /\ handler # None /\ break_loop
           /\ last[2] > Len(typed[n].body) /\ last[2] <= CrPosition(n)
        \/ handler = None /\ message_index = 0 /\ last[2] > Len(typed[n].body)
    BY <1>0, <2>1, <2>2, <2>3 DEF Ready
  <2>6. \/ handler' # None /\ handler'[1] = n /\ ~break_loop' /\ ~Beyond'
        \/ /\ handler' # None /\ break_loop'
           /\ last'[2] > Len(typed'[n].body) /\ last'[2] <= CrPosition(n)'
        \/ handler' = None /\ message_index' = 0 /\ last'[2] > Len(typed'[n].body)
    BY <1>1, <1>5, <2>2, <2>4, <2>5
  <2> QED BY <1>1, <2>1, <2>6 DEF Ready, CrPosition
<1>7. ASSUME NEW n \in clean', Due(n)' PROVE (HasRun(n) /\ Passed(n))' \/ Pending(n)'
  <2>1. n \in clean /\ typed'[n] = typed[n]
    BY <1>3
  <2>2. Due(n)
    BY <1>7, <2>1 DEF Due
  <2>3. CASE HasRun(n) /\ Passed(n)
    <3>1. HasRun(n)'
      BY <1>1, <2>1, <2>3, RanKept
    <3>2. Passed(n)'
      BY <1>1, <1>5, <2>3 DEF Passed
    <3> QED BY <3>1, <3>2
  <2>4. CASE Pending(n)
    <3>1. handler # None /\ handler[1] = n /\ (\A j \in 1 .. Len(executed) : executed[j].line # n)
      BY <2>4 DEF Pending
    <3>2. Collected(n) => Collected(n)'
      <4> SUFFICES ASSUME Collected(n) PROVE Collected(n)'
        OBVIOUS
      <4>1. ASSUME NEW j \in DOMAIN args'
            PROVE  IF Format'.copy[j] <= param'
                   THEN Spells(args[j], n, Places(typed[n], Format.copy[j]))'
                   ELSE args'[j] = << >>
        <5>1. j \in DOMAIN args /\ args' = args /\ param' = param /\ Format' = Format
          BY <1>1, <1>5, <3>1, <4>1
        <5>2. Places(typed[n], Format.copy[j])' = Places(typed[n], Format.copy[j])
          BY <2>1, <5>1 DEF Places
        <5>3. Spells(args[j], n, Places(typed[n], Format.copy[j]))'
                <=> Spells(args[j], n, Places(typed[n], Format.copy[j]))
          BY <5>1, <5>2 DEF Spells
        <5>4. IF Format.copy[j] <= param
              THEN Spells(args[j], n, Places(typed[n], Format.copy[j])) ELSE args[j] = << >>
          BY <5>1, Zenon DEF Collected
        <5> QED BY <5>1, <5>3, <5>4
      <4>2. Content' = Content
        BY <1>1 DEF Content
      <4>3. Reached(typed[n], param + 1, last[2])' = Reached(typed[n], param + 1, last[2])
        BY <1>1, <2>1 DEF Reached, Places
      <4>4. Spells(Content, n, Reached(typed[n], param + 1, last[2]))'
        BY <4>2, <4>3 DEF Collected, Spells
      <4>5. (message_index # 0 => message_index = Len(message_sr))'
        BY <1>1 DEF Collected
      <4> QED BY <4>1, <4>4, <4>5 DEF Collected
    <3>3. AsTyped(args, n) => AsTyped(args, n)'
      BY <1>1, <2>1, Zenon DEF AsTyped
    <3> QED BY <1>1, <1>5, <2>4, <3>1, <3>2, <3>3 DEF Pending
  <2> QED BY <1>0, <2>1, <2>2, <2>3, <2>4 DEF Running
<1> QED BY <1>2, <1>6, <1>7 DEF Running

LEMMA StepClean == CleanInv /\ [Next]_vars => CleanInv'
<1> SUFFICES ASSUME CleanInv, [Next]_vars PROVE CleanInv'
  OBVIOUS
<1>0. ParserInv /\ TypeInv /\ Ordered /\ InOrder
  BY DEF CleanInv, ParserInv
<1>1. ParserInv'
  BY <1>0, StepUnmixed
<1>2. CASE _uart0_rx_isr
  <2>1. PICK n, i \in Nat :
          Arrive(n, i) /\ (UNCHANGED typed \/ (\E l \in Line : typed' = Append(typed, l)))
    BY <1>0, <1>2, IsrFacts
  <2>2. \A m \in 1 .. Len(typed) : typed'[m] = typed[m]
    BY <1>0, <2>1, TypedKept DEF TypeInv, HostOK
  <2>3. /\ UNCHANGED <<parser, executed, last, drained>> /\ clean' \subseteq clean
        /\ dropped' = dropped \/ (dropped' = dropped \cup {<<n, i>>} /\ clean' = clean \ {n})
    BY <2>1 DEF Arrive
  <2>4. \A m \in clean' : Whole(m)'
    <3> TAKE m \in clean'
    <3>1. Whole(m)
      BY <1>0, <2>3 DEF InOrder
    <3>2. CASE dropped' = dropped
      BY <3>1, <3>2 DEF Whole
    <3>3. CASE dropped' = dropped \cup {<<n, i>>} /\ clean' = clean \ {n}
      <4>1. m # n /\ <<n, i>>[1] = n
        BY <3>3
      <4> QED BY <3>1, <3>3, <4>1 DEF Whole
    <3> QED BY <2>3, <3>2, <3>3
  <2>5. InOrder' /\ Idle' /\ Ready' /\ Running'
    BY <2>2, <2>3, <2>4, CleanKept
  <2>6. Ordered'
    BY <1>0, <1>2, ArriveOrdered
  <2> QED BY <1>1, <2>5, <2>6 DEF CleanInv
<1>3. CASE read_sr
  <2>1. Idle'
    BY <1>3, StepIdle
  <2>2. ASSUME NEW token,
               \/ IgnoreLineEnd(token) \/ Accumulate(token)
               \/ RunAtOnce(token) \/ BeginArguments(token)
               \/ CollectText(token) \/ Separator(token) \/ LeaveAfter(token)
        PROVE  Ordered' /\ InOrder' /\ Ready' /\ Running'
    <3>1. Receive(token)
      BY <2>2 DEF IgnoreLineEnd, Accumulate, RunAtOnce, BeginArguments, CollectText,
                  Separator, LeaveAfter
    <3>2. Ordered'
      BY <1>0, <3>1, ReceiveOrdered
    <3> QED BY <2>2, <3>2, InOrderReceived, ReadyReceived, RunningReceived
  <2>3. ASSUME Pause \/ LeaveEmpty PROVE Ordered' /\ InOrder' /\ Ready' /\ Running'
    <3>1. ReceiveNothing
      BY <2>3 DEF Pause, LeaveEmpty
    <3>2. UNCHANGED <<typed, position, xQueueUART, last>>
      BY <1>0, <3>1, NothingReceived
    <3>3. Ordered'
      BY <1>0, <3>2 DEF Ordered, Precedes, Waiting
    <3> QED BY <2>3, <3>1, <3>3, InOrderNothing, ReadyNothing, RunningNothing
  <2> QED BY <1>1, <1>3, <2>1, <2>2, <2>3 DEF read_sr, CleanInv
<1>4. CASE UNCHANGED vars
  <2>1. UNCHANGED <<typed, position, xQueueUART, parser, executed, last, drained, dropped, clean>>
    BY <1>4 DEF vars, host
  <2>2. Ordered'
    BY <1>0, <2>1 DEF Ordered, Precedes, Waiting
  <2>3. \A n \in clean' : Whole(n)'
    BY <1>0, <2>1 DEF InOrder, Whole
  <2>4. InOrder' /\ Idle' /\ Ready' /\ Running'
    BY <2>1, <2>3, CleanKept
  <2> QED BY <1>1, <2>2, <2>4 DEF CleanInv
<1> QED BY <1>2, <1>3, <1>4 DEF Next

LEMMA InitClean == Init => CleanInv
<1> SUFFICES ASSUME Init PROVE CleanInv
  OBVIOUS
<1>1. /\ typed = << >> /\ position = 0 /\ xQueueUART = << >> /\ message_index = 0
      /\ handler = None /\ break_loop = FALSE /\ executed = << >> /\ last = None
      /\ clean = {} /\ Len(<< >>) = 0 /\ None = <<0, 0>>
  BY DEF Init, None
<1>2. \A k : k \notin 0 .. 0 - 1 /\ k \notin 1 .. 0
  BY SMT
<1>3. Ordered
  <2>1. Waiting(0) = <<0, 0>>
    BY <1>1 DEF Waiting
  <2>2. ~Precedes(<<0, 0>>, <<0, 0>>)
    BY SMT DEF Precedes
  <2> QED BY <1>1, <1>2, <2>1, <2>2, Zenon DEF Ordered
<1>4. InOrder
  BY <1>1, <1>2, Zenon DEF InOrder
<1>5. Idle /\ Ready /\ Running
  <2>1. Idle
    BY <1>1 DEF Idle
  <2>2. \A n : n \notin clean
    BY <1>1
  <2> QED BY <2>1, <2>2, Zenon DEF Ready, Running
<1> QED BY <1>3, <1>4, <1>5, InitUnmixed DEF CleanInv

LEMMA CleanHaveRun == CleanInv => CleanLinesRun
<1> SUFFICES ASSUME CleanInv, handler = None, NEW n \in clean, Due(n)
             PROVE  \E i \in DOMAIN executed :
                      /\ executed[i].line = n /\ AsTyped(executed[i].args, n)
                      /\ \A j \in DOMAIN executed :
                           /\ executed[j].line < n <=> j < i
                           /\ executed[j].line > n <=> j > i
  BY DEF CleanLinesRun, Due
<1>1. HasRun(n)
  BY DEF CleanInv, Running, Pending
<1>2. DOMAIN executed = 1 .. Len(executed)
  BY Lines DEF CleanInv, ParserInv
<1> QED BY <1>1, <1>2, Zenon DEF HasRun, RanAt

(* What was typed is what runs: a line that came after a pause or after a  *)
(* clean delimited line, lost no token and was not interrupted, has run    *)
(* exactly once, in the order typed and with the texts typed between its   *)
(* separators, whenever read_sr is not in the loop of a command - for any  *)
(* lines of the formats, any number of them and any length of the queue,   *)
(* and whatever came before (user_main.c:178-187).                         *)
THEOREM CleanLinesAlwaysRun == Spec => []CleanLinesRun
<1>1. Spec => []CleanInv
  BY InitClean, StepClean, PTL DEF Spec
<1> QED BY <1>1, CleanHaveRun, PTL

-----------------------------------------------------------------------------
(* In the loop of a clean delimited line read_sr waits for a separator of  *)
(* the line, or leaves with the token it receives.                         *)
LEMMA StepStays == CleanInv /\ LoopStaysInLine /\ [Next]_vars => LoopStaysInLine'
<1> SUFFICES ASSUME CleanInv, LoopStaysInLine, [Next]_vars,
                    handler' # None, handler'[1] \in clean', Delimited(handler[1])'
             PROVE  last'[1] = handler'[1]
  BY DEF LoopStaysInLine
<1>0. ParserInv /\ TypeInv /\ InOrder /\ Ready
  BY DEF CleanInv, ParserInv
<1>1. ASSUME handler' = handler, handler'[1] \in clean, last' = last,
             \A m \in 1 .. Len(typed) : typed'[m] = typed[m]
      PROVE  last'[1] = handler'[1]
  <2>1. handler # None /\ typed'[handler[1]] = typed[handler[1]]
    BY <1>0, <1>1, InLoop
  <2>2. Delimited(handler[1])
    BY <1>1, <2>1 DEF Delimited
  <2> QED BY <1>1, <2>1, <2>2 DEF LoopStaysInLine
<1>2. CASE _uart0_rx_isr
  <2>1. PICK n, i \in Nat :
          Arrive(n, i) /\ (UNCHANGED typed \/ (\E l \in Line : typed' = Append(typed, l)))
    BY <1>0, <1>2, IsrFacts
  <2>2. \A m \in 1 .. Len(typed) : typed'[m] = typed[m]
    BY <1>0, <2>1, TypedKept DEF TypeInv, HostOK
  <2>3. handler' = handler /\ last' = last /\ clean' \subseteq clean
    BY <2>1 DEF Arrive, parser
  <2> QED BY <1>1, <2>2, <2>3
<1>3. CASE read_sr
  <2>1. ASSUME NEW token, BeginArguments(token) PROVE last'[1] = handler'[1]
    BY <2>1 DEF BeginArguments, Receive, Note
  <2>2. ASSUME NEW token, CollectText(token) \/ Separator(token)
        PROVE  last'[1] = handler'[1]
    <3>1. handler # None /\ handler' = handler /\ ~break_loop /\ Receive(token)
      BY <2>2 DEF CollectText, Separator
    <3>2. last' = token /\ typed' = typed
      BY <3>1, ReceivedOn
    <3>3. handler[1] \in clean
      BY <3>1, NewlyClean
    <3>4. Delimited(handler[1])
      BY <3>1, <3>2 DEF Delimited
    <3>5. last[1] = handler[1]
      BY <3>1, <3>3, <3>4 DEF LoopStaysInLine
    <3>6. ~Beyond
      BY <1>0, <3>1, <3>3, <3>4, <3>5 DEF Ready
    <3>7. token = <<handler[1], last[2] + 1>>
      <4>1. Whole(handler[1])
        BY <1>0, <3>3 DEF InOrder
      <4> QED BY <1>0, <3>1, <3>6, <4>1, Continues
    <3> QED BY <3>1, <3>2, <3>7
  <2>3. ASSUME NEW token, IgnoreLineEnd(token) \/ Accumulate(token) \/ RunAtOnce(token)
        PROVE  handler' = None
    BY <2>3 DEF IgnoreLineEnd, Accumulate, RunAtOnce, parser
  <2>4. ASSUME NEW token, LeaveAfter(token) PROVE handler' = None
    BY <2>4 DEF LeaveAfter, Leave
  <2>5. Pause \/ LeaveEmpty => handler' = None
    BY DEF Pause, LeaveEmpty, Leave
  <2> QED BY <1>3, <2>1, <2>2, <2>3, <2>4, <2>5 DEF read_sr
<1>4. CASE UNCHANGED vars
  BY <1>1, <1>4 DEF vars, host, parser
<1> QED BY <1>2, <1>3, <1>4 DEF Next

(* The loop of a clean delimited command receives no token of the next     *)
(* line, for any lines of the formats, any number of them and any length   *)
(* of the queue (the while loops of user_main.c:188-940 with break_loop).  *)
THEOREM LoopAlwaysInLine == Spec => []LoopStaysInLine
<1>1. Spec => []CleanInv
  BY InitClean, StepClean, PTL DEF Spec
<1>2. Init => LoopStaysInLine
  BY DEF Init, LoopStaysInLine
<1> QED BY <1>1, <1>2, StepStays, PTL DEF Spec
=============================================================================
