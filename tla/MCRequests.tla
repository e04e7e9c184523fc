----------------------------- MODULE MCRequests ----------------------------
\* Requests for "/", for a page behind two blanks, and with a header and blanks on
\* both sides of the url; and what is no request: no url, no version, a body that
\* is taken for the next head, a blank line too many.
EXTENDS Requests

Line(method, before, url, after) ==
  <<method>> \o before \o url \o after \o <<"HTTP/1.1", "\r", "\n">>

Root == Line("GET", <<" ">>, <<"/">>, <<" ">>) \o <<"\r", "\n">>
Page == Line("HEAD", <<" ", " ">>, <<"/", "a">>, <<" ">>) \o <<"\r", "\n">>
Long == Line("GET", <<" ">>, <<"/", "a", "b">>, <<" ", " ">>) \o <<"h", "\r", "\n", "\r", "\n">>

NoUrl == Line("GET", <<>>, <<>>, <<" ">>) \o <<"\r", "\n">>
NoVersion == <<"GET", " ", "/", "\r", "\n", "\r", "\n">>
Post == Line("POST", <<" ">>, <<"/", "a">>, <<" ">>) \o <<"\r", "\n">>

MCScripts == {Root \o Long, Long \o Page, Page \o Root, Root \o NoUrl, NoVersion \o Root,
              Post \o <<"b">> \o Root, Root \o <<"\r", "\n">> \o Page}
MCByte == {"GET", "HEAD", "POST", " ", "/", "a", "b", "h", "HTTP/1.1", "\r", "\n"}
MCIndexPage == <<"/", "rom", "/", "index">>
=============================================================================
