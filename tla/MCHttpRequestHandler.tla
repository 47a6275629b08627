----------------------- MODULE MCHttpRequestHandler -----------------------
(***************************************************************************)
(* Model-checking instances of HttpRequestHandler.                         *)
(***************************************************************************)
EXTENDS HttpRequestHandler, TLC

\* What the handler looks at in a reply: is there content, is more to come.
AllPayloads == [content : BOOLEAN, more_content : BOOLEAN]

=============================================================================
