----------------------------- MODULE MCFetcher ------------------------------
(* Answers on both sides of every test in fetcher.rs, for a limit of 2.     *)
EXTENDS Fetcher

Page(status, declared, retry_after, chunks, ends) ==
    [send |-> "ok", status |-> status, declared |-> declared, retry_after |-> retry_after,
     chunks |-> chunks, ends |-> ends]
Down(kind) == [Page(200, None, None, <<>>, "ok") EXCEPT !.send = kind]

Fits == Page(200, 2, None, <<1, 1>>, "ok")
Empty == Page(204, None, None, <<>>, "ok")
Streamed == Page(200, None, None, <<1, 1, 1>>, "ok")
Declared == Page(200, 3, None, <<1, 1, 1>>, "ok")
Reset == Page(200, None, None, <<1>>, "Transport")
Undecodable == Page(200, None, None, <<1>>, "Other")
Missing == Page(404, None, None, <<1>>, "ok")
BusyFor(secs) == Page(429, None, secs, <<>>, "ok")
BusyLarge == Page(503, 3, None, <<1, 1, 1>>, "ok")
BusyStreamed == Page(503, None, None, <<1, 1, 1>>, "ok")

MCAnswers ==
    {Fits, Empty, Streamed, Declared, Reset, Undecodable, Missing, BusyFor(0), BusyFor(120),
     BusyLarge, BusyStreamed, Down("Transport"), Down("Other")}
=============================================================================
