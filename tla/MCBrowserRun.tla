---------------------------- MODULE MCBrowserRun ----------------------------
(* Two handlers, so that two journeys, or a journey and a late attempt, run *)
(* side by side: one takes a screenshot, the other opens and closes a tab.  *)
EXTENDS BrowserRun

MCSteps == [e \in Execution |->
  IF e = "initial"
  THEN <<[id |-> "open", kind |-> "page", tab |-> ""], [id |-> "shot", kind |-> "shot", tab |-> ""]>>
  ELSE <<[id |-> "tab", kind |-> "openTab", tab |-> "second"],
         [id |-> "close", kind |-> "closeTab", tab |-> ""]>>]
MCPolicy == [kind \in {"screenshot", "trace", "har"} |->
               IF kind = "har" THEN "never" ELSE "on-failure"]
=============================================================================
