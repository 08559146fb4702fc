--------------------------- MODULE MCBrowserReads ---------------------------
\* A context, a view and a list of two pages for one or two users.
EXTENDS BrowserReads

MCUsers == {"ana", "bob"}
OneUser == {"ana"}
MCViews == {"context", "summary"}
Contexts == {"context"}
Memoised == {"summary"}
=============================================================================
