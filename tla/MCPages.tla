------------------------------ MODULE MCPages ------------------------------
(***************************************************************************)
(* Instances of WebConsole and WidgetPage for TLC.  The pages share no     *)
(* state but the server's cache, which they only read; one run checks them *)
(* side by side, and in each behaviour one page is open, the other not.    *)
(***************************************************************************)
EXTENDS WebConsole, TLC

CONSTANTS gyr, knud, lat, lon, depth, PageField, PageClockBound, Pages, Together, MaxPoints

VARIABLES
  open,  \* the page that is open: "console" or "widgets"
  p_cache, p_clock, p_link, p_requests, p_replies, p_sent_ts, p_losses,
  p_page, p_shown, p_threw, p_got

P == INSTANCE WidgetPage WITH
  Field <- PageField, ClockBound <- PageClockBound,
  cache <- p_cache, clock <- p_clock, link <- p_link, requests <- p_requests,
  replies <- p_replies, sent_ts <- p_sent_ts, losses <- p_losses,
  page <- p_page, shown <- p_shown, threw <- p_threw, got <- p_got

pvars == <<p_cache, p_clock, p_link, p_requests, p_replies, p_sent_ts, p_losses,
           p_page, p_shown, p_threw, p_got>>
allvars == <<open, vars, pvars>>

ASSUME PageAssumption == P!PageAssumption

-----------------------------------------------------------------------------
ConsoleField == Logger \cup {"definition", "mode", "status", "file_update", "manager"}

\* One or two loggers, which statuses are told of in any case; one definition
\* has no active mode.
OneOrTwo ==
  {[active |-> gyr :> "off", active_mode |-> "off"],
   [active |-> (gyr :> "net") @@ (knud :> "off"), active_mode |-> "on"],
   [active |-> gyr :> "off", active_mode |-> NONE]}

StatusOfBoth == {(gyr :> "net") @@ (knud :> "net")}

\* A page of position and depth, a page of timelines, and one with a dial and
\* a log.
Showing(kind, fields, seconds, back_records) ==
  [kind |-> kind, fields |-> fields, seconds |-> seconds, back_records |-> back_records]

ThreePages ==
  {<<Showing("text", <<depth>>, 0, 0), Showing("d3_dial", <<lat, lon>>, 0, 0),
     Showing("map", <<lat, lon>>, 0, 0)>>,
   <<Showing("d3_line", <<depth>>, 2, 0), Showing("line", <<depth>>, 1, 0),
     Showing("text", <<depth>>, 0, 0)>>,
   <<Showing("dial", <<depth, lat>>, 0, 0), Showing("append", <<lon>>, 3600, 100)>>}

PositionAndDepth == {{lat, lon}, {depth}}

-----------------------------------------------------------------------------
ConsoleDoes(A) == open = "console" /\ A /\ UNCHANGED <<open, pvars>>
PageDoes(A) == open = "widgets" /\ A /\ UNCHANGED <<open, vars>>

PagesInit ==
  /\ open \in {"console", "widgets"}
  /\ Init /\ P!Init
  /\ open = "console" => p_page = CHOOSE page \in Pages : TRUE

PagesNext == ConsoleDoes(Next) \/ PageDoes(P!Next)

\* Each with the fairness its own module gives it.
PagesSpec ==
  /\ PagesInit /\ [][PagesNext]_allvars
  /\ WF_allvars(ConsoleDoes(Connects))
  /\ WF_allvars(ConsoleDoes(OnMessage))
  /\ WF_allvars(ConsoleDoes(StatusTimeout))
  /\ WF_allvars(ConsoleDoes(Serves))
  /\ WF_allvars(PageDoes(P!Connects))
  /\ WF_allvars(PageDoes(P!OnMessage))
  /\ WF_allvars(PageDoes(P!Serves))

-----------------------------------------------------------------------------
\* Both pages keep their conversation with the server going, one message at
\* a time, and the console neither loses nor doubles a line.
PagesSafe == TypeOK /\ P!TypeOK /\ KeepsAsking /\ P!OneUnderWay /\ LinesInOrderOnce

\* What widgets show is what the page was given: the latest value, the
\* window of a timeline, the markers of a map.
WidgetsExact == P!LatestShown /\ P!TimelineExact /\ P!MarkersComplete

\* Either page catches up with what was published last.
PagesCatchUp == CatchesUp /\ P!GetsLatest
=============================================================================
