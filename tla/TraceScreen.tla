------------------------------ MODULE TraceScreen ------------------------------
(***************************************************************************)
(* The trace screen: the buffer of the last messages, capped by count and  *)
(* by bytes; the lines rendered from it under the broadcast mode, with the *)
(* column widths cached between messages; and the command that brings one  *)
(* message at a time from the event channel of the present connection,     *)
(* through resizes, changes of mode, clearing and a switch of the database.*)
(*                                                                         *)
(* A level or API name is as wide as its column at the least, 1, or wider, *)
(* 2; a viewport of width 1 has no columns and the API column grows with   *)
(* what the level leaves of the rest.  The payload takes what remains, and *)
(* its wrapping is left out.                                               *)
(***************************************************************************)
EXTENDS Naturals, FiniteSets, Sequences, SequencesExt

CONSTANTS
    Kinds,       \* of messages: records of level, api, size and global
    Widths,      \* of the viewport, in 1..4
    MaxMessages, MaxRawBytes,
    Buffer,      \* capacity of the event channel
    MaxEvents,   \* bound: the events of a connection
    MaxSwitches  \* bound: the switches

ASSUME ScreenAssumption ==
    /\ Kinds \subseteq [level: 1..2, api: 1..2, size: Nat, global: BOOLEAN]
    /\ Widths \subseteq 1..4 /\ Widths # {}
    /\ MaxMessages \in Nat \ {0} /\ MaxRawBytes \in Nat
    /\ Buffer \in Nat /\ MaxEvents \in Nat /\ MaxSwitches \in Nat

Modes == {"Global", "Subscriber", "Broadcast"}
Messages == [of: 0..MaxSwitches, n: 1..MaxEvents, kind: Kinds]

VARIABLES
    screen,   \* "loading" or "main", whose viewport is ready
    width,    \* of the viewport
    mode, savedMode,
    messages, totalRawBytes,
    cached,   \* column widths and the width they are for, 0 if invalid
    renderedLines,
    shown,    \* what the viewport shows: the "placeholder" or the "lines"
    of,       \* the present connection
    channel,  \* its events
    sent,     \* how many there have been
    waiting,  \* commands waiting for an event of the present connection
    held,     \* messages that a command has taken and that are not delivered
    last,     \* the last message received from the present connection
    stray     \* history: messages of an earlier connection received since the switch

modes  == <<mode, savedMode>>
buffer == <<messages, totalRawBytes, last>>
view   == <<cached, renderedLines, shown>>
stream == <<of, channel, sent, waiting, held, stray>>
vars   == <<screen, width, modes, buffer, view, stream>>

-----------------------------------------------------------------------------
(* Filter, layout and lines *)

Matches(m, md) ==
    \/ md = "Global"
    \/ md = "Subscriber" /\ ~m.kind.global
    \/ md = "Broadcast" /\ m.kind.global

filterMessages(s, md) ==
    LET upTo[i \in 0..Len(s)] ==
            IF i = 0 THEN <<>>
            ELSE IF Matches(s[i], md) THEN Append(upTo[i - 1], s[i]) ELSE upTo[i - 1]
    IN upTo[Len(s)]

Larger(a, b) == IF a > b THEN a ELSE b
Smaller(a, b) == IF a < b THEN a ELSE b
UseColumns(w) == w > 1
NoWidths == [level |-> 0, api |-> 0, key |-> 0]

\* The cached widths if they are for this width, else those of all messages.
ColumnWidths(w, s, c) ==
    IF c.key = w /\ s # <<>> THEN c
    ELSE [level |-> Max({1} \cup {s[i].kind.level : i \in DOMAIN s}),
          api   |-> Max({0} \cup {s[i].kind.api : i \in DOMAIN s}),
          key   |-> w]

AllowedAPIWidth(w, level) == Larger(1, Smaller(2, w - level))

Layout(c) ==
    LET allowed == AllowedAPIWidth(c.key, c.level)
    IN [level |-> c.level,
        api   |-> IF c.api > 0 THEN Smaller(allowed, Larger(c.api, 1)) ELSE allowed]

Compact == [level |-> 0, api |-> 0]
Line(m, w, c) == [of |-> m.of, n |-> m.n, layout |-> IF UseColumns(w) THEN Layout(c) ELSE Compact]
Lines(s, w, c) == [i \in 1..Len(s) |-> Line(s[i], w, c)]

rebuildRenderedContent(s, w, md, c) ==
    IF s = <<>>
    THEN renderedLines' = <<>> /\ shown' = "placeholder" /\ cached' = c
    ELSE LET fresh == ColumnWidths(w, s, c)
         IN /\ cached' = fresh
            /\ renderedLines' = Lines(filterMessages(s, md), w, fresh)
            /\ shown' = "lines"

AppendUnaligned(before, m, w) == \* fault: the lines there are keep their layout
    LET prev  == ColumnWidths(w, before, cached)
        wider == [level |-> Larger(m.kind.level, prev.level),
                  api   |-> Larger(m.kind.api, prev.api), key |-> w]
    IN IF ~Matches(m, mode) THEN UNCHANGED view
       ELSE /\ renderedLines' = Append(renderedLines, Line(m, w, wider))
            /\ shown' = "lines"
            /\ cached' = IF UseColumns(w) THEN wider ELSE cached

\* s ends with the new message m, and before is s without it.
appendSingleMessage(before, m, w) ==
    LET s     == Append(before, m)
        prev  == ColumnWidths(w, before, cached)
        wider == [level |-> Larger(m.kind.level, prev.level),
                  api   |-> Larger(m.kind.api, prev.api), key |-> w]
    IN IF ~Matches(m, mode) THEN UNCHANGED view
       ELSE IF ~UseColumns(w)
       THEN /\ renderedLines' = Append(renderedLines, Line(m, w, cached))
            /\ shown' = "lines" /\ UNCHANGED cached
       ELSE IF Layout(prev) # Layout(wider)
       THEN rebuildRenderedContent(s, w, mode, wider)
       ELSE /\ renderedLines' = Append(renderedLines, Line(m, w, wider))
            /\ shown' = "lines" /\ cached' = wider

-----------------------------------------------------------------------------
(* The buffer *)

RawBytes(s) ==
    LET upTo[i \in 0..Len(s)] == IF i = 0 THEN 0 ELSE upTo[i - 1] + s[i].kind.size
    IN upTo[Len(s)]

Fits(s, m) == Len(s) < MaxMessages /\ RawBytes(s) + m.kind.size <= MaxRawBytes

EvictedNewest(m) == \* fault: the newest message makes room
    IF Fits(messages, m) THEN messages ELSE Front(messages)

\* What the oldest messages leave when they make room for m.
Evicted(m) ==
    LET Suffix(k) == SubSeq(messages, k + 1, Len(messages))
        k == CHOOSE i \in 0..Len(messages) :
                /\ i = Len(messages) \/ Fits(Suffix(i), m)
                /\ \A j \in 0..(i - 1) : ~Fits(Suffix(j), m)
    IN Suffix(k)

ReceiveKeepingBytes(m) == \* fault: what is evicted is not subtracted
    LET kept == Evicted(m) IN
    /\ messages' = Append(kept, m)
    /\ totalRawBytes' = totalRawBytes + m.kind.size
    /\ last' = m.n
    /\ rebuildRenderedContent(messages', width, mode, NoWidths)

\* queueMessageMsg on the main screen
Receive(m) ==
    LET kept == Evicted(m) IN
    /\ messages' = Append(kept, m)
    /\ totalRawBytes' = (totalRawBytes - (RawBytes(messages) - RawBytes(kept))) + m.kind.size
    /\ last' = m.n
    /\ IF kept # messages
       THEN rebuildRenderedContent(messages', width, mode, NoWidths)
       ELSE appendSingleMessage(messages, m, width)

resetMainLogState ==
    /\ messages' = <<>> /\ totalRawBytes' = 0
    /\ renderedLines' = <<>> /\ cached' = NoWidths

-----------------------------------------------------------------------------
(* Events and the command that waits for them *)

Init ==
    /\ screen = "loading" /\ width \in Widths
    /\ savedMode \in Modes /\ mode = "Global"
    /\ messages = <<>> /\ totalRawBytes = 0 /\ last = 0
    /\ cached = NoWidths /\ renderedLines = <<>> /\ shown = "lines"
    /\ of = 0 /\ channel = <<>> /\ sent = 0 /\ waiting = 0 /\ held = {} /\ stray = 0

\* The listener of the present connection sends.
Send(kind) ==
    /\ sent < MaxEvents /\ Len(channel) < Buffer
    /\ sent' = sent + 1
    /\ channel' = Append(channel, [of |-> of, n |-> sent + 1, kind |-> kind])
    /\ UNCHANGED <<screen, width, modes, buffer, view, of, waiting, held, stray>>

Take ==
    /\ waiting > 0 /\ channel # <<>>
    /\ waiting' = waiting - 1
    /\ held' = held \cup {Head(channel)}
    /\ channel' = Tail(channel)
    /\ UNCHANGED <<screen, width, modes, buffer, view, of, sent, stray>>

DeliverOnce(m) == \* fault: the command is not issued again after an eviction
    /\ m \in held /\ held' = held \ {m}
    /\ screen = "main" /\ Receive(m)
    /\ waiting' = IF Fits(messages, m) THEN waiting + 1 ELSE waiting
    /\ UNCHANGED <<screen, width, modes, of, channel, sent, stray>>

DeliverFitting(m) == \* fault: eviction goes on until the message fits
    /\ m \in held /\ held' = held \ {m}
    /\ \/ /\ screen = "main" /\ m.kind.size <= MaxRawBytes
          /\ Receive(m) /\ waiting' = waiting + 1
          /\ stray' = IF m.of = of THEN stray ELSE stray + 1
       \/ screen = "loading" /\ UNCHANGED <<buffer, view, waiting, stray>>
    /\ UNCHANGED <<screen, width, modes, of, channel, sent>>

\* The main screen asks for the next event, whichever stream this one is of; the
\* loading screen ignores a message.
Deliver(m) ==
    /\ m \in held /\ held' = held \ {m}
    /\ \/ /\ screen = "main" /\ Receive(m) /\ waiting' = waiting + 1
          /\ stray' = IF m.of = of THEN stray ELSE stray + 1
       \/ screen = "loading" /\ UNCHANGED <<buffer, view, waiting, stray>>
    /\ UNCHANGED <<screen, width, modes, of, channel, sent>>

-----------------------------------------------------------------------------
(* Screens, modes and keys *)

\* The mode stays what it is if the store cannot be read.
enterMainScreen ==
    /\ screen = "loading"
    /\ screen' = "main"
    /\ mode' \in {savedMode, mode}
    /\ rebuildRenderedContent(messages, width, mode', cached)
    /\ waiting' = waiting + 1
    /\ UNCHANGED <<width, savedMode, buffer, of, channel, sent, held, stray>>

NextMode(md) == CASE md = "Global" -> "Subscriber"
                  [] md = "Subscriber" -> "Broadcast"
                  [] md = "Broadcast" -> "Global"

CycleBehind == \* fault: the lines are those of the mode before
    /\ screen = "main"
    /\ mode' = NextMode(mode) /\ savedMode' = mode'
    /\ rebuildRenderedContent(messages, width, mode, cached)
    /\ UNCHANGED <<screen, width, buffer, stream>>

\* The mode is not changed if it cannot be saved.
cycleBroadcastMode ==
    /\ screen = "main"
    /\ \/ mode' = NextMode(mode) /\ savedMode' = mode'
       \/ UNCHANGED modes
    /\ rebuildRenderedContent(messages, width, mode', cached)
    /\ UNCHANGED <<screen, width, buffer, stream>>

Clear ==
    /\ screen = "main"
    /\ resetMainLogState /\ shown' = "placeholder"
    /\ UNCHANGED <<screen, width, modes, last, stream>>

resizeMainViewport(w) ==
    /\ w # width /\ width' = w
    /\ IF screen = "main" THEN rebuildRenderedContent(messages, w, mode, cached)
       ELSE UNCHANGED view
    /\ UNCHANGED <<screen, modes, buffer, stream>>

\* handleSettingsSetAsMain ends well: a waiting command takes an event of the
\* old channel, if there is one, or finds its context cancelled.
Switch ==
    /\ screen = "main" /\ of < MaxSwitches
    /\ screen' = "loading"
    /\ resetMainLogState /\ UNCHANGED shown
    /\ of' = of + 1 /\ channel' = <<>> /\ sent' = 0 /\ last' = 0
    /\ waiting' = 0 /\ stray' = 0
    /\ \E k \in 0..Smaller(waiting, Len(channel)) :
          held' = held \cup {channel[i] : i \in 1..k}
    /\ UNCHANGED <<width, modes>>

Next ==
    \/ \E kind \in Kinds : Send(kind)
    \/ Take \/ (\E m \in held : Deliver(m))
    \/ enterMainScreen \/ cycleBroadcastMode \/ Clear
    \/ (\E w \in Widths : resizeMainViewport(w))
    \/ Switch

Pump == Take \/ (\E m \in held : Deliver(m)) \/ enterMainScreen

Spec == Init /\ [][Next]_vars
FairSpec == Spec /\ WF_vars(Pump)

-----------------------------------------------------------------------------
(* Properties *)

Layouts == {Compact} \cup [level: 1..2, api: 1..2]

\* The shape of the state, and its bounds: the count of bytes is that of the
\* messages, both caps hold, except for one message that is larger than the cap
\* alone, and a layout of columns leaves every column a width.
TypeOK ==
    /\ screen \in {"loading", "main"} /\ width \in Widths
    /\ mode \in Modes /\ savedMode \in Modes
    /\ messages \in Seq(Messages) /\ Len(messages) <= MaxMessages
    /\ totalRawBytes = RawBytes(messages) /\ last \in 0..MaxEvents
    /\ totalRawBytes <= MaxRawBytes \/ Len(messages) = 1
    /\ cached \in [level: 0..2, api: 0..2, key: Widths \cup {0}]
    /\ renderedLines \in Seq([of: 0..MaxSwitches, n: 1..MaxEvents, layout: Layouts])
    /\ shown \in {"placeholder", "lines"}
    /\ of \in 0..MaxSwitches /\ channel \in Seq(Messages) /\ sent \in 0..MaxEvents
    /\ waiting \in Nat /\ held \subseteq Messages /\ stray \in 0..MaxSwitches

\* The buffer holds the last messages of the present connection without a gap, in
\* the order in which the listener sent them, unless a message of an earlier
\* connection has strayed in.
NoGaps ==
    stray = 0 => \A i \in 1..Len(messages) :
        messages[i].of = of /\ messages[i].n + Len(messages) = last + i

\* The lines are the messages of the mode, in their order, whichever were appended
\* one by one and whichever rendered anew; the viewport shows them, and the
\* placeholder when there is no message.
LinesOfMode ==
    screen = "main" =>
        LET s == filterMessages(messages, mode) IN
        /\ Len(renderedLines) = Len(s)
        /\ \A i \in 1..Len(s) :
              renderedLines[i].of = s[i].of /\ renderedLines[i].n = s[i].n
        /\ s # <<>> => shown = "lines"
        /\ messages = <<>> => shown = "placeholder"

\* All lines have one layout, that of the present width and of the cached widths, whatever
\* both were when each was appended.  (The cache may know of a wider line than is shown.)
Aligned ==
    screen = "main" =>
        \A i \in 1..Len(renderedLines) :
            renderedLines[i].layout = IF UseColumns(width) THEN Layout(cached) ELSE Compact

\* There is one command that waits for the connection's events, or one message of
\* them on its way to the main screen; each stray message adds another, and order
\* is lost from then on.
OnePump ==
    screen = "main" =>
        waiting + Cardinality({m \in held : m.of = of}) = 1 + stray

\* No event stays in the channel.
Drains == []<>(channel = <<>>)
=============================================================================
