----------------------------- MODULE WidgetPage -----------------------------
(***************************************************************************)
(* A page with widgets: display/js/widgets/widget_server.js and the widgets *)
(* of text_widget.js, highcharts_widget.js, d3_widgets.js and map_widget.js *)
(* that it serves; and the pages of django_gui/static/django_gui that are  *)
(* served by websocket.js: widget.html.js, edit_config.html.js and         *)
(* change_mode.html.js.                                                    *)
(*                                                                         *)
(* A widget is given by its kind, its fields and the seconds of data it    *)
(* asks for, 0 for none:                                                   *)
(*   "text"      text_widget TextWidget, of one field, and widget.html     *)
(*   "append"    a TextWidget that appends, and the stderr windows         *)
(*   "dial"      highcharts_widget DialWidget                              *)
(*   "line"      highcharts_widget TimelineWidget                          *)
(*   "d3_dial"   d3_widgets DialWidget                                     *)
(*   "d3_line"   d3_widgets TimelineWidget                                 *)
(*   "map"       map_widget MapWidget                                      *)
(* It shows a list of records per field; how they are drawn is left out,   *)
(* as are transforms and the colours of values that are not renewed.       *)
(***************************************************************************)
EXTENDS DataFeed, Functions

CONSTANTS
  Pages,      \* pages, each a sequence of widgets
  Together,   \* the sets of fields that come in one record
  MaxPoints   \* maxPoints of the D3 timelines

Widget == [kind : {"text", "append", "dial", "line", "d3_dial", "d3_line", "map"},
           fields : Seq(Field), seconds : Nat, back_records : Nat]

PageAssumption ==
  /\ Together \subseteq SUBSET Field
  /\ MaxPoints \in Nat \ {0}
  /\ ClockBound \in Nat /\ LossBound \in Nat
  /\ NONE \notin Nat \cup Field
  /\ Pages \subseteq Seq(Widget)

VARIABLES
  page,   \* the widgets of this page
  shown,  \* what each widget shows of each of its fields
  threw,  \* has onmessage thrown an exception on this connection?
  got     \* history: the records the page was given, per field

pageVars == <<page, shown, threw, got>>
vars == <<feedVars, pageVars>>

\* A record is a number of its field, or something else.
IsNumber(r) == r.val # NONE

TypeOK ==
  /\ FeedTypeOK
  /\ page \in Pages
  /\ DOMAIN shown = DOMAIN page
  /\ \A i \in DOMAIN page :
       /\ DOMAIN shown[i] = DOMAIN page[i].fields
       /\ page[i].kind \in {"text", "dial", "d3_dial"} => \A k \in DOMAIN shown[i] : Len(shown[i][k]) <= 1
  /\ threw \in BOOLEAN

Init ==
  /\ FeedInit
  /\ page \in Pages
  /\ shown = [i \in DOMAIN page |-> [k \in DOMAIN page[i].fields |-> <<>>]]
  /\ threw = FALSE
  /\ got = [f \in Field |-> <<>>]

-----------------------------------------------------------------------------
(***************************************************************************)
(* build_data_request, and initial_send_message of the pages without a     *)
(* WidgetServer: the greatest number of seconds that a widget asks for, or *)
(* the latest value only.                                                  *)
(***************************************************************************)
WidgetsOf(f) == {i \in DOMAIN page : f \in Range(page[i].fields)}

PageFields == {f \in Field : WidgetsOf(f) # {}}

\* Mutant: a widget that asks for no data gets none of the past.
AskedOrZero(i) == page[i].seconds

Asked(i) == IF page[i].seconds = 0 THEN -1 ELSE page[i].seconds

DataRequest ==
  [f \in PageFields |->
     [seconds      |-> Greatest({Asked(i) : i \in WidgetsOf(f)}),
      back_records |-> Greatest({page[i].back_records : i \in WidgetsOf(f)})]]

-----------------------------------------------------------------------------
(***************************************************************************)
(* process_message of the widgets: what a widget shows of its k-th field   *)
(* after a message.                                                        *)
(***************************************************************************)
New(data, f) == IF f \in DOMAIN data THEN data[f] ELSE <<>>

\* Mutant: of several new values the oldest is shown.
ReplacedByOldest(old, new) == IF new = <<>> THEN old ELSE <<Head(new)>>

\* Mutant: the new values are added.
ReplacedByAll(old, new) == old \o new

Replaced(old, new) == IF new = <<>> THEN old ELSE <<Last(new)>>

\* Mutant: one point at most is dropped.
OneDropped(line, seconds) ==
  IF line # <<>> /\ seconds > 0 /\ line[1].ts < Newest(line) - seconds THEN Tail(line) ELSE line

\* Points are dropped from the front while they are too old.
Trimmed(line, seconds) ==
  IF line = <<>> \/ seconds = 0 THEN line
  ELSE LET kept == {i \in DOMAIN line : line[i].ts >= Newest(line) - seconds}
       IN SubSeq(line, CHOOSE i \in kept : \A j \in kept : i <= j, Len(line))

LastOnes(line, n) == IF Len(line) <= n THEN line ELSE SubSeq(line, Len(line) - n + 1, Len(line))

\* TimelineWidget of Highcharts drops what is no number, and, since it has no
\* this.max_points, no points but the old ones.
Points(list) == Chosen(list, {n \in DOMAIN list : IsNumber(list[n])})

Plotted(line, new) == line \o Points(new)

\* DialWidget of D3 gives the values that have come to its pointers in turn,
\* so that the k-th pointer gets the k-th of the fields that have values.
Pointed(i, k, data) ==
  LET fields == page[i].fields
      come   == {m \in DOMAIN fields : fields[m] \in DOMAIN data}
  IN IF k <= Cardinality(come) THEN <<Last(data[fields[Ascending(come)[k]]])>> ELSE shown[i][k]

\* What process_message of each kind makes of what has come, if it can show
\* it: text_widget.js (for a value with a length), the dials and timelines of
\* highcharts_widget.js and d3_widgets.js, and map_widget.js (for numbers).
ShownAfter(i, k, data) ==
  LET w   == page[i]
      old == shown[i][k]
      new == New(data, w.fields[k])
  IN CASE w.kind \in {"text", "dial"}  -> Replaced(old, new)
       [] w.kind \in {"append", "map"} -> old \o new
       [] w.kind = "d3_dial"           -> Pointed(i, k, data)
       [] w.kind = "line"    -> IF new = <<>> THEN old ELSE Trimmed(Plotted(old, new), w.seconds)
       [] w.kind = "d3_line" -> IF new = <<>> THEN old
                                ELSE LastOnes(Trimmed(old \o new, w.seconds), MaxPoints)

\* A Highcharts timeline without any point, to which something comes that
\* is no number, reads the time of its last point: a TypeError.
Throws(i, k, data) ==
  /\ page[i].kind = "line"
  /\ page[i].fields[k] \in DOMAIN data
  /\ Plotted(shown[i][k], data[page[i].fields[k]]) = <<>>

\* The fields of a widget, and the widgets of a page, have their turn.
Reached(i, k, data) ==
  ~ \E j \in DOMAIN page : \E m \in DOMAIN page[j].fields :
      Throws(j, m, data) /\ (j < i \/ (j = i /\ m <= k))

-----------------------------------------------------------------------------
(***************************************************************************)
(* The page's events.                                                      *)
(***************************************************************************)
Connects ==
  /\ Opens(DataRequest)
  /\ threw' = FALSE
  /\ UNCHANGED <<page, shown, got>>

\* Mutant: the answer to the subscription is not answered.
OnMessageOfData ==
  /\ replies # <<>>
  /\ LET data == Head(replies).data IN
       /\ shown' = [i \in DOMAIN page |-> [k \in DOMAIN page[i].fields |->
                      IF Reached(i, k, data) THEN ShownAfter(i, k, data) ELSE shown[i][k]]]
       /\ threw' = \E i \in DOMAIN page : \E k \in DOMAIN page[i].fields : Throws(i, k, data)
       /\ Takes(IF threw' \/ Head(replies).type = "subscribe" THEN <<>> ELSE <<Ready>>)
       /\ got' = [f \in Field |-> got[f] \o New(data, f)]
  /\ UNCHANGED page

\* An exception keeps `ready` from being sent.
OnMessage ==
  /\ replies # <<>>
  /\ LET data == Head(replies).data IN
       /\ shown' = [i \in DOMAIN page |-> [k \in DOMAIN page[i].fields |->
                      IF Reached(i, k, data) THEN ShownAfter(i, k, data) ELSE shown[i][k]]]
       /\ threw' = \E i \in DOMAIN page : \E k \in DOMAIN page[i].fields : Throws(i, k, data)
       /\ Takes(IF threw' THEN <<>> ELSE <<Ready>>)
       /\ got' = [f \in Field |-> got[f] \o New(data, f)]
  /\ UNCHANGED page

-----------------------------------------------------------------------------
PublishesSomething ==
  /\ \/ \E S \in Together : Publishes([f \in S |-> f]) \/ Publishes([f \in S |-> NONE])
     \/ Publishes(Nothing)
  /\ UNCHANGED pageVars

Serves == Serving /\ UNCHANGED pageVars

Breaks == Loses /\ UNCHANGED pageVars

\* A page that has thrown waits for its connection to break.
Waits == threw /\ UNCHANGED vars

Next == Connects \/ OnMessage \/ PublishesSomething \/ Serves \/ Breaks \/ Waits

Spec == Init /\ [][Next]_vars

\* The server answers, and the page's events are handled; nothing need be
\* published.
FairSpec == Spec /\ WF_vars(Connects) /\ WF_vars(OnMessage) /\ WF_vars(Serves)

-----------------------------------------------------------------------------
(***************************************************************************)
(* Properties.                                                             *)
(***************************************************************************)
Of(kinds) == {i \in DOMAIN page : page[i].kind \in kinds}

\* One message is under way at a time, unless a widget has thrown.
OneUnderWay == link = "open" /\ ~threw => Len(requests) + Len(replies) = 1

\* Do the fields of a widget come in the same records, and does the page ask
\* the same for each?
Alike(i) ==
  \A f, g \in Range(page[i].fields) :
    /\ \A S \in Together : f \in S <=> g \in S
    /\ DataRequest[f] = DataRequest[g]

\* Has the widget seen every message?  The exception of a Highcharts timeline
\* keeps one from the widgets behind it.
Spared(i) ==
  \/ losses = 0 /\ ~threw
  \/ \A j \in 1..(i - 1) : page[j].kind # "line"

\* Texts and dials show the latest value of their own field that the page
\* was given, dials of D3 if their fields are alike.
LatestShown ==
  \A i \in Of({"text", "dial", "d3_dial"}) :
    Spared(i) /\ (page[i].kind = "d3_dial" => Alike(i)) =>
      \A k \in DOMAIN page[i].fields : shown[i][k] = LastOnes(got[page[i].fields[k]], 1)

\* On one connection a timeline shows, of the points given, those of its
\* last seconds in their order, or all if it gives none; of a D3 timeline the
\* last MaxPoints.
Within(line, seconds) ==
  IF seconds = 0 THEN line
  ELSE Chosen(line, {n \in DOMAIN line : line[n].ts >= Newest(line) - seconds})

TimelineExact ==
  losses = 0 /\ ~threw =>
    /\ \A i \in Of({"line"}) : \A k \in DOMAIN page[i].fields :
         shown[i][k] = Within(Points(got[page[i].fields[k]]), page[i].seconds)
    /\ \A i \in Of({"d3_line"}) : \A k \in DOMAIN page[i].fields :
         shown[i][k] = LastOnes(Within(got[page[i].fields[k]], page[i].seconds), MaxPoints)

\* Every marker of a map whose fields are alike has all its coordinates.
MarkersComplete ==
  \A i \in Of({"map"}) : Alike(i) =>
    \A k, m \in DOMAIN page[i].fields :
      [n \in DOMAIN shown[i][k] |-> shown[i][k][n].ts] = [n \in DOMAIN shown[i][m] |-> shown[i][m][n].ts]

\* Of each field of which no widget asks for a time's data, the page is given
\* the latest value in the end.
GetsLatest ==
  <>[](~threw => \A f \in PageFields :
         (\A i \in WidgetsOf(f) : page[i].seconds = 0) /\ cache[f] # <<>>
           => got[f] # <<>> /\ Last(got[f]) = Last(cache[f]))
=============================================================================
