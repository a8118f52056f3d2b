-------------------------- MODULE MCHttpClientSpan --------------------------
EXTENDS HttpClientSpan

CONSTANTS r1, r2

MCRequests == {r1, r2}
OneParented == {r1}
\* r1 is sent with http.DefaultClient, patched by init or not.
DefaultClientRequests == {r1}
NoRequests == {}
\* r2 is prepared by the caller with TraceRequest(tr, req, ClientTrace(false)).
Unparented == {r2}
\* The write loop's WroteRequest and a background dial's ConnectDone.
TransportLateHooks == {"WroteRequest", "ConnectDone"}
NoLateHooks == {}

=============================================================================
