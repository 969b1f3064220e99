---------------------------- MODULE MCWebClient ----------------------------
\* Instances of WebClient for TLC: one tab, and journeys through the pages that
\* share forms or dialogs.
EXTENDS WebClient

CONSTANTS t1, f1
EachPage == {{"tasks"}, {"finance"}, {"divisions", "division"}, {"members"},
             Settings, {"register"}}
Tasks == {{"tasks"}}
============================================================================
