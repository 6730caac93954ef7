----------------------------- MODULE MCStatusLed -----------------------------
EXTENDS StatusLed

Begin(station, on, o, w, t, h, p, s) ==
    [radio |-> station, enabled |-> on,
     left |-> [outage |-> o, web |-> w, touch |-> t, hotkey |-> h, post |-> p, pulse |-> s]]
\* The web UI, a touch and a flash; the station; the jiggler's two sides.
MCStarts ==
    UNION {{Begin("up", on, 0, 1, 1, 0, 0, 1), Begin("down", FALSE, 0, 1, 1, 0, 0, 1),
            Begin("connecting", on, 1, 0, 0, 0, 0, 1), Begin("connecting", on, 1, 1, 0, 0, 0, 0),
            Begin("up", on, 0, 0, 0, 1, 1, 0), Begin("up", on, 0, 0, 1, 1, 0, 0),
            Begin("down", on, 0, 0, 1, 1, 0, 0)} : on \in BOOLEAN}
=============================================================================
