------------------------------ MODULE MCTexts ------------------------------
EXTENDS IdentifiersProps, WordTextsProps

MCCountryCode == <<"8", "4">>
MCCodes == { <<"A">> }
=============================================================================
