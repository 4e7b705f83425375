----------------------------- MODULE MCCapture -------------------------------
\* The capture process and its image store on small instances.
EXTENDS Capture

\* The codes are written and published, and nothing here reads them back: no guard, no
\* other variable and no property of the run depends on one.  States that differ in the
\* codes alone, and in what only a code is made of, are explored once.
ButTheCodes ==
    <<onDisk, up, index, cursor, call, outcome, now, troubles, lane, todo, followed,
      restarted, shown, cutOff>>
=============================================================================
