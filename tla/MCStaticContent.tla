-------------------------- MODULE MCStaticContent --------------------------
EXTENDS StaticContent

McValue == [version : 1..MaxVersion, lastWriteTime : 1..MaxVersion]
=============================================================================
